---- MODULE Spec2Model ----
(***************************************************************************)
(* A model of the MyST-AST to Jupyter-notebook export of mystmd:           *)
(*   packages/myst-to-ipynb/src/index.ts        (lifter, writeIpynb)       *)
(*   packages/myst-to-ipynb/src/attachments.ts  (embedImagesAsAttachments) *)
(*   packages/myst-to-ipynb/src/commonmark.ts   (transformToCommonMark)    *)
(*                                                                         *)
(* Representation.  A JavaScript string is a sequence of one-character    *)
(* strings.  An absent text property is UndefS, an absent enumerated      *)
(* property (kind) is Undef, an absent children array is None and a       *)
(* present one is Some(<<child, ...>>).  Every node carries an object     *)
(* identity oid: the nodes of the caller's tree have distinct positive    *)
(* oids, an object allocated during the export has oid Fresh.             *)
(***************************************************************************)
EXTENDS Integers, Sequences, FiniteSets, TLC

VARIABLES
  pc,          \* position inside the operation under way
  root,        \* the caller's tree (argument `node` of writeIpynb), as the caller sees it
  frontmatter, \* argument `frontmatter` of writeIpynb
  options,     \* argument `options` of writeIpynb
  node,        \* writeIpynb's local `node` after the lifter ran
  cells,       \* writeIpynb's local `cells`
  metadata,    \* writeIpynb's local `metadata`
  mdParts,     \* the pieces of the markdown a direct call of the rewriter is given
  dataMap,     \* argument `imageData` of that call
  embedded,    \* what that call returned
  given,       \* the tree a direct call of the Degrader is given, as its caller sees it
  degraded,    \* that tree as the first call of the Degrader returned it
  degradedTwice, \* and as a second call on the result returned it
  files,       \* the file system collectImageData reads
  imgAt,       \* the position of collectImageData's loop in imageNodes
  logged,      \* what collectImageData wrote to session.log.debug
  probed,      \* the calls collectImageData made on the file system, in order
  written,     \* the markdown string a direct call of stripBlockMarkers is given
  cleaned,     \* what that call returned
  codeText,    \* the value of the code node of a notebook-code block
  emitted      \* the cell writeIpynb's callback returned for that block

vars == <<pc, root, frontmatter, options, node, cells, metadata,
          mdParts, dataMap, embedded, given, degraded, degradedTwice,
          files, imgAt, logged, probed, written, cleaned, codeText, emitted>>
exportVars == <<root, frontmatter, options, node, cells, metadata>>
embedVars == <<mdParts, dataMap, embedded>>
degradeVars == <<given, degraded, degradedTwice>>
collectVars == <<files, imgAt, logged, probed>>
textVars == <<written, cleaned, codeText, emitted>>

----------------------------------------------------------------------------
(* Bounds of the model *)

\* most children of an exercise/solution drawn for the lifter
MaxKids == 3
\* most plain units placed before and after the unit under study in a root
MaxPad == 1
MaxParts == 3

----------------------------------------------------------------------------
(* JavaScript values *)

Undef == "undefined"
UndefS == <<"undefined">>
None == <<>>
Some(v) == <<v>>
Fresh == 0

\* node.children ?? []
Kids(n) == IF n.children = None THEN <<>> ELSE n.children[1]

RECURSIVE Flatten(_)
Flatten(ss) ==
  IF ss = <<>> THEN <<>>
  ELSE IF Len(ss) = 1 THEN ss[1]
  ELSE LET h == Len(ss) \div 2
       IN  Flatten(SubSeq(ss, 1, h)) \o Flatten(SubSeq(ss, h + 1, Len(ss)))

\* a node with no property set but its type
Node(t) ==
  [type |-> t, kind |-> Undef, children |-> None, value |-> UndefS,
   identifier |-> UndefS, label |-> UndefS, enumerator |-> UndefS,
   url |-> UndefS, urlSource |-> UndefS, alt |-> UndefS, title |-> UndefS,
   lang |-> UndefS, html_id |-> UndefS, oid |-> Fresh]

Text(v) == [Node("text") EXCEPT !.value = v]
Paragraph(v) == [Node("paragraph") EXCEPT !.children = Some(<<Text(v)>>)]
Code(v) == [Node("code") EXCEPT !.value = v]
\* root > block{kind: notebook-code} > code: a {code-cell} directive
CodeCell(v) ==
  [Node("block") EXCEPT !.kind = "notebook-code", !.children = Some(<<Code(v)>>)]
Parent(t, kids) == [Node(t) EXCEPT !.children = Some(kids)]

----------------------------------------------------------------------------
(* The Gated-Content Lifter, index.ts 58-211 *)

isCodeCellBlock(n) == n.type = "block" /\ n.kind = "notebook-code"

\* isGatedNodeWithCodeCells were it to know exercises only
isExerciseWithCodeCells(n, opts) ==
  /\ n.type = "exercise"
  /\ n.children # None
  /\ \E i \in 1..Len(n.children[1]) : isCodeCellBlock(n.children[1][i])

isGatedNodeWithCodeCells(n, opts) ==
  IF n.type # "exercise" /\ n.type # "solution" THEN FALSE
  ELSE IF n.type = "solution" /\ opts.dropSolutions THEN FALSE
  ELSE IF n.children = None THEN FALSE
  ELSE \E i \in 1..Len(n.children[1]) : isCodeCellBlock(n.children[1][i])

\* { type: 'block', children: [...] }: a new object
NewBlock(kids) == Parent("block", kids)

\* flushMarkdown were isFirstGroup never cleared: a wrapper around every run
flushWrapEvery(n, st, wrapInBlock) ==
  IF Len(st.mdContent) = 0 THEN st
  ELSE LET wrapper == [n EXCEPT !.children = Some(st.mdContent), !.oid = Fresh]
       IN  [mdContent |-> <<>>, isFirstGroup |-> TRUE,
            output |-> Append(st.output,
                              IF wrapInBlock THEN NewBlock(<<wrapper>>) ELSE wrapper)]

\* the closure flushMarkdown of liftFromExerciseSolution; st holds the
\* captured mdContent, isFirstGroup and output
flushMarkdown(n, st, wrapInBlock) ==
  IF Len(st.mdContent) = 0 THEN st
  ELSE LET content == st.mdContent
           wrapper == [n EXCEPT !.children = Some(content), !.oid = Fresh]
       IN  IF st.isFirstGroup
           THEN [mdContent |-> <<>>, isFirstGroup |-> FALSE,
                 output |-> Append(st.output,
                                   IF wrapInBlock THEN NewBlock(<<wrapper>>)
                                                  ELSE wrapper)]
           ELSE [mdContent |-> <<>>, isFirstGroup |-> st.isFirstGroup,
                 output |-> IF wrapInBlock
                            THEN Append(st.output, NewBlock(content))
                            ELSE st.output \o content]

\* the for loop of liftFromExerciseSolution over node.children ?? []
RECURSIVE liftGatedChildren(_, _, _, _)
liftGatedChildren(n, kids, st, wrapInBlock) ==
  IF kids = <<>> THEN st
  ELSE LET gatedChild == Head(kids)
           flushed == flushMarkdown(n, st, wrapInBlock)
       IN  liftGatedChildren(n, Tail(kids),
             IF isCodeCellBlock(gatedChild)
             THEN [flushed EXCEPT !.output = Append(@, gatedChild)]
             ELSE [st EXCEPT !.mdContent = Append(@, gatedChild)],
             wrapInBlock)

\* liftFromExerciseSolution were it to hoist the code cells before the prose
liftCodeFirst(n, output, wrapInBlock) ==
  LET code == SelectSeq(Kids(n), isCodeCellBlock)
      prose == SelectSeq(Kids(n), LAMBDA c : ~isCodeCellBlock(c))
      wrapper == [n EXCEPT !.children = Some(prose), !.oid = Fresh]
  IN  output \o code
        \o (IF prose = <<>> THEN <<>>
            ELSE IF wrapInBlock THEN <<NewBlock(<<wrapper>>)>> ELSE <<wrapper>>)

liftFromExerciseSolution(n, output, wrapInBlock) ==
  flushMarkdown(n,
    liftGatedChildren(n, Kids(n),
      [mdContent |-> <<>>, isFirstGroup |-> TRUE, output |-> output],
      wrapInBlock),
    wrapInBlock).output

\* a variant that emits the pending siblings bare, without a block
flushPendingBare(st) == [pending |-> <<>>, output |-> st.output \o st.pending]

\* the closure flushPending of splitBlockWithGatedNodes
flushPending(st) ==
  IF Len(st.pending) = 0 THEN st
  ELSE [pending |-> <<>>, output |-> Append(st.output, NewBlock(st.pending))]

RECURSIVE splitBlockChildren(_, _, _)
splitBlockChildren(kids, st, opts) ==
  IF kids = <<>> THEN st
  ELSE LET child == Head(kids)
       IN  splitBlockChildren(Tail(kids),
             IF isGatedNodeWithCodeCells(child, opts)
             THEN [pending |-> <<>>,
                   output |-> liftFromExerciseSolution(child, flushPending(st).output, TRUE)]
             ELSE [st EXCEPT !.pending = Append(@, child)],
             opts)

splitBlockWithGatedNodes(block, output, opts) ==
  flushPending(splitBlockChildren(Kids(block),
                                  [pending |-> <<>>, output |-> output], opts)).output

\* the for loop of liftCodeCellsFromGatedNodes; st holds newChildren and modified
RECURSIVE liftRootChildren(_, _, _)
liftRootChildren(kids, st, opts) ==
  IF kids = <<>> THEN st
  ELSE LET c == Head(kids)
       IN  liftRootChildren(Tail(kids),
             IF isGatedNodeWithCodeCells(c, opts)
             THEN [modified |-> TRUE,
                   newChildren |-> liftFromExerciseSolution(c, st.newChildren, FALSE)]
             ELSE IF c.type = "block" /\ c.children # None
                     /\ \E i \in 1..Len(c.children[1]) :
                          isGatedNodeWithCodeCells(c.children[1][i], opts)
             THEN [modified |-> TRUE,
                   newChildren |-> splitBlockWithGatedNodes(c, st.newChildren, opts)]
             ELSE [st EXCEPT !.newChildren = Append(@, c)],
             opts)

\* a variant that builds a new root whether anything was lifted or not
liftIntoNewRoot(r, opts) ==
  [r EXCEPT !.children =
              Some(liftRootChildren(Kids(r), [modified |-> FALSE, newChildren |-> <<>>],
                                    opts).newChildren),
            !.oid = Fresh]

liftCodeCellsFromGatedNodes(r, opts) ==
  LET st == liftRootChildren(Kids(r), [modified |-> FALSE, newChildren |-> <<>>], opts)
  IN  IF ~st.modified THEN r
      ELSE [r EXCEPT !.children = Some(st.newChildren), !.oid = Fresh]

----------------------------------------------------------------------------
(* Helpers of the CommonMark Degrader, commonmark.ts (src/unnamed/part_002) *)

\* transformNode's `return null`
Null == [type |-> "null"]

\* the characters of the enumerated kinds the Degrader capitalizes
CharsOf(k) ==
  CASE k = "note" -> <<"n", "o", "t", "e">>
    [] k = "proof" -> <<"p", "r", "o", "o", "f">>
    [] k = "theorem" -> <<"t", "h", "e", "o", "r", "e", "m">>
    [] OTHER -> <<"k">>

toUpperCase(c) ==
  CASE c = "n" -> "N" [] c = "p" -> "P" [] c = "t" -> "T" [] c = "k" -> "K"
    [] OTHER -> c

capitalize(s) == IF s = <<>> THEN <<>> ELSE <<toUpperCase(Head(s))>> \o Tail(s)

\* toText of myst-common: the node's value, else its children's text joined
RECURSIVE toText(_)
toText(n) ==
  IF n.value # UndefS THEN n.value
  ELSE Flatten([i \in 1..Len(Kids(n)) |-> toText(Kids(n)[i])])

\* unist-util-select's select(type, tree): the first node of that type in
\* document order, the tree itself included; Null when there is none
RECURSIVE select(_, _), selectIn(_, _)
select(t, n) == IF n.type = t THEN n ELSE selectIn(t, Kids(n))
selectIn(t, kids) ==
  IF kids = <<>> THEN Null
  ELSE LET hit == select(t, Head(kids))
       IN  IF hit # Null THEN hit ELSE selectIn(t, Tail(kids))

\* Array.prototype.find / filter on node.children by type
findType(n, t) ==
  IF \E i \in 1..Len(Kids(n)) : Kids(n)[i].type = t
  THEN Kids(n)[CHOOSE i \in 1..Len(Kids(n)) :
                 /\ Kids(n)[i].type = t
                 /\ \A j \in 1..(i - 1) : Kids(n)[j].type # t]
  ELSE Null
withoutTypes(n, ts) == SelectSeq(Kids(n), LAMBDA c : c.type \notin ts)

\* paragraph(strong(children))
BoldParagraph(kids) == Parent("paragraph", <<Parent("strong", kids)>>)
BoldTitle(t) == BoldParagraph(<<Text(t)>>)

sExercise == <<"E", "x", "e", "r", "c", "i", "s", "e">>
sSolution == <<"S", "o", "l", "u", "t", "i", "o", "n">>
sDetails == <<"D", "e", "t", "a", "i", "l", "s">>

transformAdmonition(n) ==
  LET kind == IF n.kind = Undef THEN "note" ELSE n.kind
      titleNode == findType(n, "admonitionTitle")
      titleText == IF titleNode # Null THEN toText(titleNode) ELSE capitalize(CharsOf(kind))
  IN  Parent("blockquote", <<BoldTitle(titleText)>> \o withoutTypes(n, {"admonitionTitle"}))

transformMathBlock(n) ==
  LET value == IF n.value = UndefS THEN <<>> ELSE n.value
      labelComment == IF n.label # UndefS /\ n.label # <<>>
                      THEN <<" ", "(">> \o n.label \o <<")">> ELSE <<>>
  IN  [Node("html") EXCEPT
         !.value = <<"$", "$", "\n">> \o value \o <<"\n", "$", "$">> \o labelComment]

transformInlineMath(n) ==
  [Node("html") EXCEPT
     !.value = <<"$">> \o (IF n.value = UndefS THEN <<>> ELSE n.value) \o <<"$">>]

transformFigure(n) ==
  LET imageNode == select("image", n)
      captionNode == select("caption", n)
      legendNode == select("legend", n)
      url == IF imageNode = Null THEN <<>>
             ELSE IF imageNode.urlSource # UndefS THEN imageNode.urlSource
             ELSE IF imageNode.url # UndefS THEN imageNode.url ELSE <<>>
      alt == IF imageNode # Null /\ imageNode.alt # UndefS THEN imageNode.alt
             ELSE IF captionNode # Null THEN toText(captionNode) ELSE <<>>
      image == [Node("image") EXCEPT !.url = url, !.alt = alt,
                  !.title = IF imageNode = Null THEN UndefS ELSE imageNode.title]
      caption == IF captionNode # Null /\ Len(Kids(captionNode)) > 0
                 THEN <<Parent("paragraph", <<Parent("emphasis", Kids(captionNode))>>)>>
                 ELSE <<>>
      legend == IF legendNode # Null /\ Len(Kids(legendNode)) > 0
                THEN Kids(legendNode) ELSE <<>>
  IN  Parent("root", <<image>> \o caption \o legend)

transformTableContainer(n) ==
  LET captionNode == select("caption", n)
      tableNode == select("table", n)
  IN  Parent("root",
        (IF captionNode # Null /\ Len(Kids(captionNode)) > 0
         THEN <<BoldParagraph(Kids(captionNode))>> ELSE <<>>)
        \o (IF tableNode # Null THEN <<tableNode>> ELSE <<>>))

transformExercise(n) ==
  LET titleNode == findType(n, "admonitionTitle")
      titleText == IF titleNode # Null THEN toText(titleNode) ELSE sExercise
      enumerator == IF n.enumerator # UndefS /\ n.enumerator # <<>>
                    THEN <<" ">> \o n.enumerator ELSE <<>>
  IN  Parent("root", <<BoldTitle(titleText \o enumerator)>>
                     \o withoutTypes(n, {"admonitionTitle"}))

transformSolution(n, dropSolutions) ==
  IF dropSolutions THEN Null
  ELSE LET titleNode == findType(n, "admonitionTitle")
           titleText == IF titleNode # Null THEN toText(titleNode) ELSE sSolution
       IN  Parent("root", <<BoldTitle(titleText)>> \o withoutTypes(n, {"admonitionTitle"}))

transformProof(n) ==
  LET kind == IF n.kind = Undef THEN "proof" ELSE n.kind
      titleNode == findType(n, "admonitionTitle")
      titleText == IF titleNode # Null
                   THEN <<" ", "(">> \o toText(titleNode) \o <<")">> ELSE <<>>
      enumerator == IF n.enumerator # UndefS /\ n.enumerator # <<>>
                    THEN <<" ">> \o n.enumerator ELSE <<>>
  IN  Parent("root", <<BoldTitle(capitalize(CharsOf(kind)) \o enumerator \o titleText)>>
                     \o withoutTypes(n, {"admonitionTitle"}))

transformTabSet(n) ==
  Parent("root",
    Flatten([i \in 1..Len(Kids(n)) |->
      LET tabItem == Kids(n)[i]
      IN  IF tabItem.type = "tabItem" \/ tabItem.kind = "tabItem"
          THEN (IF tabItem.title # UndefS /\ tabItem.title # <<>>
                THEN <<BoldTitle(tabItem.title)>> ELSE <<>>)
               \o Kids(tabItem)
          ELSE <<>>]))

transformCard(n) ==
  LET titleNode == findType(n, "cardTitle")
  IN  Parent("root",
        (IF titleNode # Null
         THEN <<BoldParagraph(IF titleNode.children # None THEN titleNode.children[1]
                              ELSE <<Text(toText(titleNode))>>)>>
         ELSE <<>>)
        \o withoutTypes(n, {"cardTitle", "header", "footer"}))

transformGrid(n) == Parent("root", Kids(n))

transformDetails(n) ==
  LET summaryNode == findType(n, "summary")
      titleText == IF summaryNode # Null THEN toText(summaryNode) ELSE sDetails
  IN  Parent("blockquote", <<BoldTitle(titleText)>> \o withoutTypes(n, {"summary"}))

transformAside(n) ==
  LET titleNode == findType(n, "admonitionTitle")
  IN  Parent("blockquote",
        (IF titleNode # Null THEN <<BoldParagraph(Kids(titleNode))>> ELSE <<>>)
        \o withoutTypes(n, {"admonitionTitle"}))

transformCodeBlock(n) ==
  [Node("code") EXCEPT !.lang = n.lang,
                       !.value = IF n.value = UndefS THEN <<>> ELSE n.value]

transformImage(n) ==
  [Node("image") EXCEPT
     !.url = IF n.url # UndefS THEN n.url
             ELSE IF n.urlSource # UndefS THEN n.urlSource ELSE <<>>,
     !.alt = IF n.alt # UndefS THEN n.alt ELSE <<>>,
     !.title = n.title]

transformMystDirective(n) ==
  IF Len(Kids(n)) > 0 THEN Parent("root", Kids(n))
  ELSE IF n.value # UndefS /\ n.value # <<>>
  THEN [Node("code") EXCEPT !.lang = IF n.lang = UndefS THEN <<>> ELSE n.lang,
                            !.value = n.value]
  ELSE Null

\* a variant that treats a role as transformMystDirective treats a directive
transformMystRoleAsDirective(n) == transformMystDirective(n)

transformMystRole(n) ==
  IF Len(Kids(n)) > 0 THEN Parent("root", Kids(n))
  ELSE Text(IF n.value = UndefS THEN <<>> ELSE n.value)

transformNode(n, dropSolutions) ==
  CASE n.type = "admonition" -> transformAdmonition(n)
    [] n.type = "math" -> transformMathBlock(n)
    [] n.type = "inlineMath" -> transformInlineMath(n)
    [] n.type = "container" ->
         IF n.kind = "figure" THEN transformFigure(n)
         ELSE IF n.kind = "table" THEN transformTableContainer(n)
         ELSE IF n.kind = "code"
         THEN LET codeNode == select("code", n)
              IN  IF codeNode # Null THEN transformCodeBlock(codeNode) ELSE n
         ELSE n
    [] n.type = "exercise" -> transformExercise(n)
    [] n.type = "solution" -> transformSolution(n, dropSolutions)
    [] n.type = "proof" -> transformProof(n)
    [] n.type = "tabSet" -> transformTabSet(n)
    [] n.type = "card" -> transformCard(n)
    [] n.type = "grid" -> transformGrid(n)
    [] n.type = "details" -> transformDetails(n)
    [] n.type = "aside" -> transformAside(n)
    [] n.type = "include" ->
         IF Len(Kids(n)) > 0 THEN Parent("root", Kids(n)) ELSE Null
    [] n.type = "mystDirective" -> transformMystDirective(n)
    [] n.type = "mystRole" -> transformMystRole(n)
    [] n.type = "mystTarget" -> Null
    [] n.type = "comment" -> Null
    [] n.type = "code" -> transformCodeBlock(n)
    [] n.type = "image" -> transformImage(n)
    [] OTHER -> n

\* delete child.identifier; delete child.label
stripLabels(n) == [n EXCEPT !.identifier = UndefS, !.label = UndefS]

\* a variant that never flattens: a root wrapper is pushed as it is
replacementKept(transformed) ==
  IF transformed = Null THEN <<>> ELSE <<transformed>>

\* the second loop of transformToCommonMark: drop null, flatten a root
\* wrapper, keep anything else
replacement(transformed) ==
  IF transformed = Null THEN <<>>
  ELSE IF transformed.type = "root" /\ transformed.children # None
  THEN transformed.children[1]
  ELSE <<transformed>>

replaceChildren(kids, dropSolutions) ==
  Flatten([i \in 1..Len(kids) |-> replacement(transformNode(kids[i], dropSolutions))])

\* the third loop: every child left loses identifier and label
stripAll(kids) == [i \in 1..Len(kids) |-> stripLabels(kids[i])]

\* a variant that does not recurse: only the tree's own children are
\* replaced, what lies deeper is left as it is
transformOneLevel(tree, opts) ==
  IF tree.children = None THEN tree
  ELSE [tree EXCEPT !.children =
          Some(stripAll(replaceChildren(tree.children[1], opts.dropSolutions)))]

\* the tree as transformToCommonMark returns it (and leaves it: the
\* function works in place and returns its argument)
RECURSIVE transformToCommonMark(_, _)
transformToCommonMark(tree, opts) ==
  IF tree.children = None THEN tree
  ELSE LET recursed == [i \in 1..Len(tree.children[1]) |->
                          transformToCommonMark(tree.children[1][i], opts)]
       IN  [tree EXCEPT !.children =
              Some(stripAll(replaceChildren(recursed, opts.dropSolutions)))]

----------------------------------------------------------------------------
(* JavaScript string operations.  The punctuation the code inspects is    *)
(* kept character by character; the letters of a document's own text are  *)
(* opaque characters such as "t1".                                        *)

\* the characters \s matches and trim removes
WhiteSpace == {" ", "\n", "\t"}

\* String.prototype.indexOf(c, from), 0 when there is none
IndexOf(s, c, from) ==
  LET hits == {i \in from..Len(s) : s[i] = c}
  IN  IF hits = {} THEN 0 ELSE CHOOSE i \in hits : \A j \in hits : i <= j

\* String.prototype.lastIndexOf(c), 0 when there is none
LastIndexOf(s, c) ==
  IF \E i \in 1..Len(s) : s[i] = c
  THEN CHOOSE i \in 1..Len(s) : s[i] = c /\ \A j \in (i + 1)..Len(s) : s[j] # c
  ELSE 0

\* String.prototype.split(c)
split(s, c) ==
  LET seps == {i \in 1..Len(s) : s[i] = c}
      \* the k-th separator; 0 and Len(s) + 1 stand for the two ends
      sep(k) == IF k = 0 THEN 0
                ELSE IF k > Cardinality(seps) THEN Len(s) + 1
                ELSE CHOOSE i \in seps : Cardinality({j \in seps : j < i}) = k - 1
  IN  [k \in 1..(Cardinality(seps) + 1) |-> SubSeq(s, sep(k - 1) + 1, sep(k) - 1)]

trimEnd(s) ==
  LET solid == {i \in 1..Len(s) : s[i] \notin WhiteSpace}
  IN  IF solid = {} THEN <<>>
      ELSE SubSeq(s, 1, CHOOSE i \in solid : \A j \in solid : j <= i)

trimStart(s) ==
  LET solid == {i \in 1..Len(s) : s[i] \notin WhiteSpace}
  IN  IF solid = {} THEN <<>>
      ELSE SubSeq(s, CHOOSE i \in solid : \A j \in solid : i <= j, Len(s))

trim(s) == trimStart(trimEnd(s))

StartsWith(s, prefix) ==
  Len(s) >= Len(prefix) /\ SubSeq(s, 1, Len(prefix)) = prefix

\* Number.prototype.toString for a counter
RECURSIVE toDigits(_)
toDigits(n) ==
  LET d == <<"0", "1", "2", "3", "4", "5", "6", "7", "8", "9">>
  IN  IF n < 10 THEN <<d[n + 1]>> ELSE toDigits(n \div 10) \o <<d[(n % 10) + 1]>>

----------------------------------------------------------------------------
(* index.ts 15-27 *)

\* src.split('\n').map((s) => `${s}\n`), then the last line trimEnd()ed
sourceToStringList(src) ==
  LET parts == split(src, "\n")
      lines == [i \in 1..Len(parts) |-> parts[i] \o <<"\n">>]
  IN  [lines EXCEPT ![Len(lines)] = trimEnd(@)]

\* md.replace(/^\+\+\+[^\n]*(\n|$)/gm, ''): under the m flag ^ matches at
\* the start of every line, so every line that starts with +++ goes,
\* together with its line break
stripBlockMarkers(md) ==
  LET parts == split(md, "\n")
      line(k) == IF k < Len(parts) THEN parts[k] \o <<"\n">> ELSE parts[k]
  IN  Flatten([k \in 1..Len(parts) |->
                 IF StartsWith(parts[k], <<"+", "+", "+">>) THEN <<>> ELSE line(k)])

----------------------------------------------------------------------------
(* The Image Attachment Rewriter, attachments.ts (src/unnamed/part_002 1-97) *)
(* An image-data map is a set of entries [url, mime, data] with one entry  *)
(* per url; an attachments object is a set of entries [name, mime, data].  *)

\* url.split('?')[0].split('#')[0], then the last of split('/') || 'image'
basename(url) ==
  LET clean == split(split(url, "?")[1], "#")[1]
      parts == split(clean, "/")
      last == parts[Len(parts)]
  IN  IF last = <<>> THEN <<"i", "m", "a", "g", "e">> ELSE last

\* url.replace(/\\([()[\]])/g, '$1')
\* a match is a backslash and the bracket after it; matches cannot overlap
unescapeUrl(url) ==
  Flatten([i \in 1..Len(url) |->
             IF i < Len(url) /\ url[i] = "\\" /\ url[i + 1] \in {"(", ")", "[", "]"}
             THEN <<>> ELSE <<url[i]>>])

\* s[a..b-1] matches (?:\\\]|[^\]])* : every ] is the second half of \]
altMatches(s, a, b) ==
  \A p \in a..(b - 1) : s[p] = "]" => (p > a /\ s[p - 1] = "\\")

\* s[a..b-1] matches (?:\\\)|[^)\s])+
urlMatches(s, a, b) ==
  /\ b > a
  /\ \A p \in a..(b - 1) :
       /\ s[p] \notin WhiteSpace
       /\ s[p] = ")" => (p > a /\ s[p - 1] = "\\")

\* where (?:\s+"[^"]*")?\) ends when it starts at k, 0 when it does not match
tailEnd(s, k) ==
  IF k > Len(s) THEN 0
  ELSE IF s[k] = ")" THEN k
  ELSE IF s[k] \in WhiteSpace
  THEN LET q == CHOOSE q \in k..(Len(s) + 1) :
                  /\ \A p \in k..(q - 1) : s[p] \in WhiteSpace
                  /\ (q > Len(s) \/ s[q] \notin WhiteSpace)
           close == IF q <= Len(s) /\ s[q] = "\"" THEN IndexOf(s, "\"", q + 1) ELSE 0
       IN  IF close # 0 /\ close < Len(s) /\ s[close + 1] = ")" THEN close + 1 ELSE 0
  ELSE 0

\* the match of imgRegex that starts at i: the greedy groups give way from
\* the right, so the longest alt, then the longest url, that lets the rest
\* match.  [ok, alt, url, end]
imgMatchAt(s, i) ==
  LET n == Len(s)
      urlEnds(j) == {k \in (j + 3)..n : urlMatches(s, j + 2, k) /\ tailEnd(s, k) # 0}
      altEnds == {j \in (i + 2)..(n - 1) :
                    /\ s[j] = "]" /\ altMatches(s, i + 2, j)
                    /\ s[j + 1] = "(" /\ urlEnds(j) # {}}
  IN  IF i + 1 > n \/ s[i] # "!" \/ s[i + 1] # "[" \/ altEnds = {}
      THEN [ok |-> FALSE]
      ELSE LET j == CHOOSE j \in altEnds : \A x \in altEnds : x <= j
               k == CHOOSE k \in urlEnds(j) : \A x \in urlEnds(j) : x <= k
           IN  [ok |-> TRUE, alt |-> SubSeq(s, i + 2, j - 1),
                url |-> SubSeq(s, j + 2, k - 1), end |-> tailEnd(s, k)]

\* imageData[unescapedUrl] on a plain object: the entry of that key, else
\* what every object inherits under that name from Object.prototype (a
\* function, which has neither mime nor data), else undefined.  A name is
\* one character here.
ObjectPrototypeKeys == {<<"constructor">>, <<"toString">>, <<"valueOf">>}
lookupImage(imageData, url) ==
  IF \E e \in imageData : e.url = url
  THEN CHOOSE e \in imageData : e.url = url
  ELSE IF url \in ObjectPrototypeKeys
  THEN [url |-> url, mime |-> UndefS, data |-> UndefS]
  ELSE Null

\* a variant without the loop: the basename whether used or not
uniqueNameUnchecked(base, name, counter, usedNames) == base

\* the while loop: base, then base_1.ext, base_2.ext, ... until unused
RECURSIVE uniqueName(_, _, _, _)
uniqueName(base, name, counter, usedNames) ==
  IF name \notin usedNames THEN name
  ELSE LET dot == LastIndexOf(base, ".")
       IN  uniqueName(base,
             IF dot >= 1
             THEN SubSeq(base, 1, dot - 1) \o <<"_">> \o toDigits(counter)
                  \o SubSeq(base, dot, Len(base))
             ELSE base \o <<"_">> \o toDigits(counter),
             counter + 1, usedNames)

\* attachments[name] = { [data.mime]: data.data }
putAttachment(attachments, name, data) ==
  {e \in attachments : e.name # name}
    \cup {[name |-> name, mime |-> data.mime, data |-> data.data]}

\* the replacer callback of md.replace(imgRegex, ...); st holds the
\* attachments and usedNames it captures
attachAs(m, data, name, st) ==
  [text |-> <<"!", "[">> \o m.alt \o <<"]", "(">>
              \o <<"a", "t", "t", "a", "c", "h", "m", "e", "n", "t", ":">>
              \o name \o <<")">>,
   kept |-> FALSE,
   st |-> [usedNames |-> st.usedNames \cup {name},
           attachments |-> putAttachment(st.attachments, name, data)]]

attachFound(m, data, base, st) ==
  attachAs(m, data, uniqueName(base, base, 1, st.usedNames), st)

replaceImage(m, imageData, st) ==
  LET unescapedUrl == unescapeUrl(m.url)
      data == lookupImage(imageData, unescapedUrl)
  IN  IF data = Null THEN [text |-> <<>>, kept |-> TRUE, st |-> st]
      ELSE attachFound(m, data, basename(unescapedUrl), st)

\* md.replace(imgRegex, replacer) from position i on: matches are taken
\* left to right and do not overlap.  [md, st]
RECURSIVE replaceImages(_, _, _, _)
replaceImages(s, i, imageData, st) ==
  LET starts == {j \in i..Len(s) : imgMatchAt(s, j).ok}
      \* the text up to the match at j, what replaces the match, the rest
      spliced(j, m, rep, r) ==
        [md |-> SubSeq(s, i, j - 1)
                  \o (IF rep.kept THEN SubSeq(s, j, m.end) ELSE rep.text)
                  \o r.md,
         st |-> r.st]
      replaced(j, m, rep) ==
        spliced(j, m, rep, replaceImages(s, m.end + 1, imageData, rep.st))
      matched(j, m) == replaced(j, m, replaceImage(m, imageData, st))
  IN  IF starts = {} THEN [md |-> SubSeq(s, i, Len(s)), st |-> st]
      ELSE \* the leftmost match
           LET j == CHOOSE j \in starts : \A x \in starts : j <= x
           IN  matched(j, imgMatchAt(s, j))

\* { md, attachments? }: attachments is None when the property is absent
embedResult(md, r) ==
  IF Cardinality(r.st.attachments) > 0
  THEN [md |-> r.md, attachments |-> Some(r.st.attachments)]
  ELSE [md |-> md, attachments |-> None]

embedImagesAsAttachments(md, imageData) ==
  IF imageData = None \/ imageData[1] = {} THEN [md |-> md, attachments |-> None]
  ELSE embedResult(md, replaceImages(md, 1, imageData[1],
                                     [usedNames |-> {}, attachments |-> {}]))

----------------------------------------------------------------------------
(* The Image Data Collector, collectImageData of myst-cli                  *)
(* (build/ipynb/index.ts 81-123).  A file system is a set of files         *)
(* [path, readable, data]; a path not in it does not exist, and reading a  *)
(* file that is not readable throws.                                       *)

\* unist-util-select's selectAll(type, tree): the nodes of that type in
\* document order
RECURSIVE selectAll(_, _)
selectAll(t, n) ==
  (IF n.type = t THEN <<n>> ELSE <<>>)
    \o Flatten([i \in 1..Len(Kids(n)) |-> selectAll(t, Kids(n)[i])])

sHttp == <<"h", "t", "t", "p", ":", "/", "/">>
sHttps == <<"h", "t", "t", "p", "s", ":", "/", "/">>
sData == <<"d", "a", "t", "a", ":">>

\* img.url ?? img.urlSource
imageUrl(img) == IF img.url # UndefS THEN img.url ELSE img.urlSource

\* !url || url.startsWith('http://') || ... : the image is not a local one
skipsUrl(url) ==
  \/ url = UndefS \/ url = <<>>
  \/ StartsWith(url, sHttp) \/ StartsWith(url, sHttps) \/ StartsWith(url, sData)

\* getSourceFolder of myst-cli's transforms/links: the project's source
\* path for a url that starts with a slash, the folder of the source file
\* for any other
getSourceFolder(url) == IF StartsWith(url, <<"/">>) THEN <<"S">> ELSE <<"F">>

\* url.replace(/^[\/\\]+/, '')
relativeUrl(url) ==
  LET solid == {i \in 1..Len(url) : url[i] \notin {"/", "\\"}}
  IN  IF solid = {} THEN <<>>
      ELSE SubSeq(url, CHOOSE i \in solid : \A j \in solid : i <= j, Len(url))

\* path.join(sourceFolder, relativeUrl)
filePathOf(url) ==
  IF relativeUrl(url) = <<>> THEN getSourceFolder(url)
  ELSE getSourceFolder(url) \o <<"/">> \o relativeUrl(url)

\* mime.lookup(filePath) || 'application/octet-stream': by the extension
mimeLookup(filePath) ==
  IF Len(filePath) >= 2 /\ SubSeq(filePath, Len(filePath) - 1, Len(filePath)) = <<".", "p">>
  THEN <<"m">> ELSE <<"o">>

existsSync(fs, filePath) == \E f \in fs : f.path = filePath
fileAt(fs, filePath) == CHOOSE f \in fs : f.path = filePath

\* imageData[url] = { mime, data }
putImage(imageData, url, filePath, f) ==
  {e \in imageData : e.url # url}
    \cup {[url |-> url, mime |-> mimeLookup(filePath), data |-> f.data]}

\* the try block for one image: [imageData, log]
readImage(imageData, url, filePath, fs, log) ==
  IF ~existsSync(fs, filePath)
  THEN [imageData |-> imageData, log |-> Append(log, [msg |-> "not found", path |-> filePath])]
  ELSE IF ~fileAt(fs, filePath).readable
  THEN [imageData |-> imageData, log |-> Append(log, [msg |-> "failed", path |-> filePath])]
  ELSE [imageData |-> putImage(imageData, url, filePath, fileAt(fs, filePath)), log |-> log]

\* the body of the loop for one image node
collectOne(imageData, url, fs, log) ==
  IF skipsUrl(url) THEN [imageData |-> imageData, log |-> log]
  ELSE IF lookupImage(imageData, url) # Null THEN [imageData |-> imageData, log |-> log]
  ELSE readImage(imageData, url, filePathOf(url), fs, log)

\* the calls on fs the body of the loop makes for one image node:
\* fs.existsSync(filePath), and fs.readFileSync(filePath) when it exists
probesOf(imageData, url, fs) ==
  IF skipsUrl(url) \/ lookupImage(imageData, url) # Null THEN <<>>
  ELSE <<[op |-> "existsSync", url |-> url, path |-> filePathOf(url)]>>
         \o (IF existsSync(fs, filePathOf(url))
             THEN <<[op |-> "readFileSync", url |-> url, path |-> filePathOf(url)]>>
             ELSE <<>>)

----------------------------------------------------------------------------
(* The markdown serializer writeMd of myst-to-md.  Only its reference      *)
(* handlers (references.ts) are among the sources; the rest is modelled    *)
(* from its contract: a deterministic, side-effect-free function from a    *)
(* subtree to a markdown string.                                           *)

\* Array.prototype.join
RECURSIVE join(_, _)
join(ss, sep) ==
  IF ss = <<>> THEN <<>>
  ELSE IF Len(ss) = 1 THEN ss[1]
  ELSE LET h == Len(ss) \div 2
       IN  join(SubSeq(ss, 1, h), sep) \o sep \o join(SubSeq(ss, h + 1, Len(ss)), sep)

\* references.ts 5-11: the (identifier)= prefix of a labelled node
labelPrefix(n) ==
  LET ident == IF n.identifier # UndefS THEN n.identifier ELSE n.label
  IN  IF ident # UndefS /\ ident # <<>>
      THEN <<"(">> \o ident \o <<")", "=", "\n">> ELSE <<>>

\* references.ts 13-17: the url a crossReference links to
resolvedUrl(n) ==
  IF n.urlSource # UndefS THEN n.urlSource
  ELSE IF n.label # UndefS /\ n.label # <<>> THEN <<"#">> \o n.label
  ELSE IF n.identifier # UndefS /\ n.identifier # <<>> THEN <<"#">> \o n.identifier
  ELSE IF n.html_id # UndefS /\ n.html_id # <<>> THEN <<"#">> \o n.html_id
  ELSE IF n.url # UndefS THEN n.url ELSE <<>>

\* the name of the directive a MyST-only node is written as
directiveName(t) ==
  CASE t = "exercise" -> <<"e", "x", "e", "r", "c", "i", "s", "e">>
    [] t = "solution" -> <<"s", "o", "l", "u", "t", "i", "o", "n">>
    [] t = "admonition" -> <<"n", "o", "t", "e">>
    [] OTHER -> <<"d", "i", "v">>

\* the serializer's escaping of brackets in an image's alt and url
escapeChars(s, cs) ==
  Flatten([i \in 1..Len(s) |-> IF s[i] \in cs THEN <<"\\", s[i]>> ELSE <<s[i]>>])

orEmpty(v) == IF v = UndefS THEN <<>> ELSE v

RECURSIVE toMarkdown(_)
toMarkdown(n) ==
  LET kids == Kids(n)
      flow == join([i \in 1..Len(kids) |-> toMarkdown(kids[i])], <<"\n", "\n">>)
      phrasing == Flatten([i \in 1..Len(kids) |-> toMarkdown(kids[i])])
  IN  CASE n.type = "root" -> flow
        [] n.type = "block" -> <<"+", "+", "+", "\n">> \o flow
        [] n.type \in {"paragraph", "heading"} -> labelPrefix(n) \o phrasing
        [] n.type = "blockquote" -> labelPrefix(n) \o <<">", " ">> \o flow
        [] n.type \in {"text", "html"} -> orEmpty(n.value)
        [] n.type = "strong" -> <<"*", "*">> \o phrasing \o <<"*", "*">>
        [] n.type = "emphasis" -> <<"*">> \o phrasing \o <<"*">>
        [] n.type = "code" ->
             \* a fenced code block; the fence is written with tildes here
             <<"~", "~", "~">> \o orEmpty(n.lang) \o <<"\n">> \o orEmpty(n.value)
             \o <<"\n", "~", "~", "~">>
        [] n.type = "image" ->
             <<"!", "[">> \o escapeChars(orEmpty(n.alt), {"[", "]"}) \o <<"]", "(">>
             \o escapeChars(orEmpty(n.url), {"(", ")"}) \o <<")">>
        [] n.type = "crossReference" ->
             <<"[">> \o phrasing \o <<"]", "(">> \o resolvedUrl(n) \o <<")">>
        [] n.type = "mystTarget" -> <<"(">> \o orEmpty(n.label) \o <<")", "=">>
        [] n.type = "comment" -> <<"%", " ">> \o orEmpty(n.value)
        [] OTHER ->
             IF n.children = None THEN orEmpty(n.value)
             ELSE <<":", ":", ":", "{">> \o directiveName(n.type) \o <<"}", "\n">>
                  \o flow \o <<"\n", ":", ":", ":">>

writeMd(tree) == toMarkdown(tree)

----------------------------------------------------------------------------
(* Object identity.  transformToCommonMark works in place: what it writes  *)
(* to an object the caller's tree holds, the caller sees.                  *)

\* JSON.parse(JSON.stringify(tree)): the same values in new objects
RECURSIVE deepCopy(_)
deepCopy(n) ==
  IF n.children = None THEN [n EXCEPT !.oid = Fresh]
  ELSE [n EXCEPT !.oid = Fresh,
                 !.children = Some([i \in 1..Len(n.children[1]) |->
                                      deepCopy(n.children[1][i])])]

\* the state transformToCommonMark leaves a child object c of its argument
\* in: c's children are replaced, and c loses identifier and label when it
\* stays in its parent's child list
staysChild(c, transformed) ==
  /\ transformed # Null
  /\ transformed.oid = c.oid
  /\ ~(transformed.type = "root" /\ transformed.children # None)

settled(c, after, dropSolutions) ==
  IF staysChild(c, transformNode(after, dropSolutions)) THEN stripLabels(after) ELSE after

objectAfter(c, opts) == settled(c, transformToCommonMark(c, opts), opts.dropSolutions)

\* the writes of transformToCommonMark(tree) to objects that are not new:
\* [oid, state] for the topmost such objects below tree
RECURSIVE objectWrites(_, _)
objectWrites(tree, opts) ==
  UNION {LET c == Kids(tree)[i]
         IN  IF c.oid # Fresh THEN {[oid |-> c.oid, state |-> objectAfter(c, opts)]}
             ELSE objectWrites(c, opts) : i \in 1..Len(Kids(tree))}

\* the tree n as seen after the writes W
RECURSIVE afterWrites(_, _)
afterWrites(n, W) ==
  IF \E w \in W : w.oid = n.oid THEN (CHOOSE w \in W : w.oid = n.oid).state
  ELSE IF n.children = None THEN n
  ELSE [n EXCEPT !.children = Some([i \in 1..Len(n.children[1]) |->
                                      afterWrites(n.children[1][i], W)])]

----------------------------------------------------------------------------
(* writeIpynb, index.ts 213-304 *)

NoCell == [cell_type |-> "none"]

codeCell(source) ==
  [cell_type |-> "code", execution_count |-> "null", metadata |-> {},
   outputs |-> <<>>, source |-> source, attachments |-> None]

markdownCell(source, attachments) ==
  [cell_type |-> "markdown", execution_count |-> Undef, metadata |-> {},
   outputs |-> Undef, source |-> source, attachments |-> attachments]

\* degraderInput without the copy: the caller's objects themselves
sharedInput(blockTree) == blockTree

\* the tree handed to transformToCommonMark: a deep copy of blockTree
degraderInput(blockTree) == deepCopy(blockTree)

\* index.ts 229-237.  code.value of a null code, and undefined.split, are
\* TypeErrors.  [threw, cell, writes]
codeCellOf(code) ==
  IF code = Null \/ code.value = UndefS
  THEN [threw |-> TRUE, cell |-> NoCell, writes |-> {}]
  ELSE [threw |-> FALSE, cell |-> codeCell(sourceToStringList(code.value)),
        writes |-> {}]

\* index.ts 240-245: the tree serialized, and what building it writes to
\* the objects of the caller
blockTreeOf(rawTree, opts) ==
  IF opts.markdown = "commonmark"
  THEN transformToCommonMark(degraderInput(rawTree), opts.commonmark)
  ELSE rawTree

writesOf(rawTree, opts) ==
  IF opts.markdown = "commonmark"
  THEN objectWrites(degraderInput(rawTree), opts.commonmark)
  ELSE {}

\* a variant that sets the field whatever the rewriter returned
attachedCellAlways(e) ==
  markdownCell(sourceToStringList(e.md),
               IF e.attachments = None THEN Some({}) ELSE e.attachments)

\* index.ts 254-262
attachedCell(e) == markdownCell(sourceToStringList(e.md), e.attachments)

\* index.ts 248-268
markdownCellOf(cleanMd, opts) ==
  IF opts.images = "attachment" /\ opts.imageData # None
  THEN attachedCell(embedImagesAsAttachments(cleanMd, opts.imageData))
  ELSE markdownCell(sourceToStringList(cleanMd), None)

\* the callback of .map for one top-level unit.
\* [threw, cell, writes]: writes are those made to the caller's objects
mapBlock(block, opts) ==
  IF block.type = "block" /\ block.kind = "notebook-code"
  THEN codeCellOf(select("code", block))
  ELSE [threw |-> FALSE,
        cell |-> markdownCellOf(
                   stripBlockMarkers(writeMd(blockTreeOf(Parent("root", <<block>>), opts))),
                   opts),
        writes |-> writesOf(Parent("root", <<block>>), opts)]

\* .map over the units: the first callback that throws ends it, and what
\* the callbacks before it wrote stays written
mapOutcome(mapped) ==
  LET bad == {i \in 1..Len(mapped) : mapped[i].threw}
      upTo == IF bad = {} THEN Len(mapped)
              ELSE (CHOOSE i \in bad : \A j \in bad : i <= j) - 1
  IN  [threw |-> bad # {},
       cells |-> [i \in 1..Len(mapped) |-> mapped[i].cell],
       writes |-> UNION {mapped[i].writes : i \in 1..upTo}]

\* keepCell were it to test the source of every cell, code cells too
keepNonEmpty(cell) == Len(trim(Flatten(cell.source))) > 0

\* keepCell were it to keep every cell
keepEvery(cell) == TRUE

\* the callback of .filter
keepCell(cell) ==
  IF cell.cell_type = "markdown"
  THEN Len(trim(Flatten(cell.source))) > 0
  ELSE TRUE

UndefO == [type |-> "undefined"]

\* frontmatter?.kernelspec
kernelspecOf(fm) == IF fm = UndefO THEN UndefO ELSE fm.kernelspec

\* languageName were the two kernelspec fields consulted the other way round
languageNameFirst(fm) ==
  IF fm = [type |-> "undefined"] \/ fm.kernelspec = [type |-> "undefined"]
  THEN <<"p", "y", "t", "h", "o", "n">>
  ELSE IF fm.kernelspec.name # UndefS THEN fm.kernelspec.name
  ELSE IF fm.kernelspec.language # UndefS THEN fm.kernelspec.language
  ELSE <<"p", "y", "t", "h", "o", "n">>

\* frontmatter?.kernelspec?.language ?? frontmatter?.kernelspec?.name ?? 'python'
languageName(fm) ==
  LET ks == kernelspecOf(fm)
  IN  IF ks # UndefO /\ ks.language # UndefS THEN ks.language
      ELSE IF ks # UndefO /\ ks.name # UndefS THEN ks.name
      ELSE <<"p", "y", "t", "h", "o", "n">>

buildMetadata(fm) ==
  [language_info |-> [name |-> languageName(fm)],
   kernelspec |-> IF kernelspecOf(fm) # UndefO
                  THEN [name |-> fm.kernelspec.name,
                        display_name |-> fm.kernelspec.display_name,
                        language |-> languageName(fm)]
                  ELSE UndefO]

----------------------------------------------------------------------------
(* The inputs drawn.  A document is built from unlabelled shapes and then  *)
(* labelled in document order: node number k gets oid k, and a text or     *)
(* code node whose value is the placeholder gets the letter Letters[k], so *)
(* that every leaf of a tree has a text of its own.                        *)

PH == <<"?">>
Letters == <<"a1", "a2", "a3", "a4", "a5", "a6", "a7", "a8", "a9", "a10", "a11", "a12", "a13", "a14", "a15", "a16", "a17", "a18", "a19", "a20", "a21", "a22", "a23", "a24", "a25", "a26", "a27", "a28", "a29", "a30", "a31", "a32", "a33", "a34", "a35", "a36", "a37", "a38", "a39", "a40">>

RECURSIVE labelNode(_, _), labelSeq(_, _)
\* [n: the node labelled from oid k on, next: the first oid not used]
labelNode(n, k) ==
  LET me == [n EXCEPT !.oid = k,
                      !.value = IF @ = PH THEN <<Letters[k]>> ELSE @]
  IN  IF n.children = None THEN [n |-> me, next |-> k + 1]
      ELSE LET ks == labelSeq(n.children[1], k + 1)
           IN  [n |-> [me EXCEPT !.children = Some(ks.s)], next |-> ks.next]
labelSeq(ss, k) ==
  IF ss = <<>> THEN [s |-> <<>>, next |-> k]
  ELSE LET h == labelNode(Head(ss), k)
           t == labelSeq(Tail(ss), h.next)
       IN  [s |-> <<h.n>> \o t.s, next |-> t.next]

Document(kids) == labelNode(Parent("root", kids), 1).n

SeqsUpTo(S, k) == UNION {[1..m -> S] : m \in 0..k}

P == Paragraph(PH)
CC == CodeCell(PH)
\* a notebook-code block without a code node, and one whose code has no value
CCNoCode == [Node("block") EXCEPT !.kind = "notebook-code", !.children = Some(<<>>)]
CCNoValue ==
  [Node("block") EXCEPT !.kind = "notebook-code", !.children = Some(<<Node("code")>>)]
Target == [Node("mystTarget") EXCEPT !.label = <<"L">>]
LabelledP == [Paragraph(PH) EXCEPT !.identifier = <<"I">>, !.label = <<"I">>]
Blank == Paragraph(<<" ">>)
ImgUrl == <<"/", "d", "/", "i", ".", "p">>
ImgP == Parent("paragraph",
               <<[Node("image") EXCEPT !.url = ImgUrl, !.alt = <<"A">>]>>)
Ex(kids) == [Parent("exercise", kids) EXCEPT !.enumerator = <<"1">>, !.label = <<"E">>]
Sol(kids) == [Parent("solution", kids) EXCEPT !.label = <<"S">>]
Block(kids) == Parent("block", kids)
Adm(kids) == [Parent("admonition", kids) EXCEPT !.kind = "note"]

\* the plain units placed around the unit under study
Pads == SeqsUpTo({P, CC}, MaxPad)

\* the top-level units of the documents exported
Units ==
  {P, CC, CCNoCode, CCNoValue, Target, LabelledP, Blank, ImgP,
   CodeCell(<<>>), Ex(<<P, CC, P>>), Ex(<<CC>>), Sol(<<P, CC>>),
   Block(<<P, Ex(<<P, CC>>), P>>), Block(<<P>>), Block(<<Target>>),
   Adm(<<Ex(<<P, CC>>)>>)}

Documents == {Document(a \o <<u>> \o b) : a \in Pads, u \in Units, b \in Pads}

\* the top-level units of the documents the lifter alone is run on:
\* exercises and solutions with every arrangement of prose and code cells,
\* blocks around them, and exercises nested deeper
GatedUnits == {Ex(ks) : ks \in SeqsUpTo({P, CC}, MaxKids)}
                \cup {Sol(ks) : ks \in SeqsUpTo({P, CC}, MaxKids)}
SmallGated == {Ex(ks) : ks \in SeqsUpTo({P, CC}, 2)}
                \cup {Sol(ks) : ks \in SeqsUpTo({P, CC}, 2)}
BlockUnits ==
  {Block(a \o <<g>> \o b) : a \in SeqsUpTo({P}, 1), g \in SmallGated, b \in SeqsUpTo({P}, 1)}
    \cup {Block(<<g, h>>) : g \in {Ex(<<P, CC>>), Sol(<<CC, P>>)},
                            h \in {Ex(<<CC>>), Sol(<<P, CC, P>>)}}
DeepUnits ==
  {Ex(<<P, CC, Ex(<<CC>>)>>), Ex(<<Ex(<<CC>>)>>), Ex(<<Block(<<CC>>)>>),
   Adm(<<Ex(<<P, CC>>)>>), Block(<<Block(<<Ex(<<CC>>)>>)>>),
   Block(<<Adm(<<Sol(<<CC>>)>>)>>), P, CC, Block(<<P, CC>>)}
LiftUnits == GatedUnits \cup BlockUnits \cup DeepUnits
LiftDocuments == {Document(a \o <<u>> \o b) : a \in Pads, u \in LiftUnits, b \in Pads}

\* IpynbOptions, index.ts 29-52.  markdown "myst" and images "reference"
\* stand for the absent option too, dropSolutions FALSE for the unset one
ImageDataMaps ==
  {None, Some({}), Some({[url |-> ImgUrl, mime |-> <<"m">>, data |-> <<"D">>]})}
OptionsSet ==
  {[markdown |-> m, commonmark |-> [dropSolutions |-> d], images |-> i.images,
    imageData |-> i.imageData] :
     m \in {"myst", "commonmark"}, d \in BOOLEAN,
     i \in {[images |-> "reference", imageData |-> None]}
             \cup {[images |-> "attachment", imageData |-> x] : x \in ImageDataMaps}}

\* PageFrontmatter: absent, without kernelspec, and kernelspecs with and
\* without language and name
Kernelspec(n, d, l) == [name |-> n, display_name |-> d, language |-> l]
Frontmatters ==
  {UndefO, [kernelspec |-> UndefO],
   [kernelspec |-> Kernelspec(<<"k">>, <<"K">>, <<"j">>)],
   [kernelspec |-> Kernelspec(<<"k">>, <<"K">>, UndefS)],
   [kernelspec |-> Kernelspec(<<"k">>, <<"K">>, <<>>)],
   [kernelspec |-> Kernelspec(UndefS, UndefS, UndefS)]}

----------------------------------------------------------------------------
(* writeIpynb as a state machine *)

NoMetadata == [language_info |-> UndefO, kernelspec |-> UndefO]
NoResult == [md |-> <<>>, attachments |-> None]

Init ==
  /\ pc = "start"
  /\ root \in Documents
  /\ frontmatter \in Frontmatters
  /\ options \in OptionsSet
  /\ node = root
  /\ cells = <<>>
  /\ metadata = NoMetadata
  /\ mdParts = <<>>
  /\ dataMap = None
  /\ embedded = NoResult
  /\ given = root
  /\ degraded = Null
  /\ degradedTwice = Null
  /\ files = {}
  /\ imgAt = 0
  /\ logged = <<>>
  /\ probed = <<>>
  /\ written = <<>>
  /\ cleaned = <<>>
  /\ codeText = <<>>
  /\ emitted = NoCell

\* index.ts 224: node = liftCodeCellsFromGatedNodes(node, options?.commonmark)
Lift ==
  /\ pc = "start"
  /\ node' = liftCodeCellsFromGatedNodes(root, options.commonmark)
  /\ pc' = "lifted"
  /\ UNCHANGED <<root, frontmatter, options, cells, metadata, embedVars, degradeVars, collectVars, textVars>>

\* index.ts 226-269: .map over node.children, which a TypeError on a
\* malformed code unit ends
MapCells ==
  /\ pc = "lifted"
  /\ \E out \in {mapOutcome([i \in 1..Len(Kids(node)) |->
                               mapBlock(Kids(node)[i], options)])} :
       /\ root' = afterWrites(root, out.writes)
       /\ cells' = IF out.threw THEN cells ELSE out.cells
       /\ pc' = IF out.threw THEN "threw" ELSE "mapped"
  /\ UNCHANGED <<frontmatter, options, node, metadata, embedVars, degradeVars, collectVars, textVars>>

\* index.ts 270-277: .filter
FilterCells ==
  /\ pc = "mapped"
  /\ cells' = SelectSeq(cells, keepCell)
  /\ pc' = "filtered"
  /\ UNCHANGED <<root, frontmatter, options, node, metadata, embedVars, degradeVars, collectVars, textVars>>

\* index.ts 279-303: the metadata, the notebook, file.result
BuildNotebook ==
  /\ pc = "filtered"
  /\ metadata' = buildMetadata(frontmatter)
  /\ pc' = "done"
  /\ UNCHANGED <<root, frontmatter, options, node, cells, embedVars, degradeVars, collectVars, textVars>>

Next == Lift \/ MapCells \/ FilterCells \/ BuildNotebook

Spec == Init /\ [][Next]_vars

\* the lifter alone, on the richer documents
LiftInit ==
  /\ pc = "start"
  /\ root \in LiftDocuments
  /\ frontmatter = UndefO
  /\ options \in {o \in OptionsSet : o.markdown = "myst" /\ o.images = "reference"}
  /\ node = root
  /\ cells = <<>>
  /\ metadata = NoMetadata
  /\ mdParts = <<>>
  /\ dataMap = None
  /\ embedded = NoResult
  /\ given = root
  /\ degraded = Null
  /\ degradedTwice = Null
  /\ files = {}
  /\ imgAt = 0
  /\ logged = <<>>
  /\ probed = <<>>
  /\ written = <<>>
  /\ cleaned = <<>>
  /\ codeText = <<>>
  /\ emitted = NoCell

LiftNext == Lift

LiftSpec == LiftInit /\ [][LiftNext]_vars

----------------------------------------------------------------------------
(* embedImagesAsAttachments called on its own.  The markdown is made of    *)
(* pieces: text, line breaks and image references as the serializer        *)
(* writes them, each with the url it stands for (key) next to the url as   *)
(* written.                                                                *)

TextPart(t) == [kind |-> "text", text |-> t]
ImagePart(alt, url, key, title) ==
  [kind |-> "image", alt |-> alt, url |-> url, key |-> key, title |-> title]

\* the markdown of a piece
partText(p) ==
  IF p.kind = "text" THEN p.text
  ELSE <<"!", "[">> \o p.alt \o <<"]", "(">> \o p.url
         \o (IF p.title THEN <<" ", "\"", "T", "\"">> ELSE <<>>) \o <<")">>

UrlE == <<"/", "e", "/", "i", ".", "p">>
UrlF == <<"f", "(", "1", ")", ".", "p">>
UrlX == <<"/", "x", ".", "p">>
\* a url whose basename is the name the loop makes for a second i.p
UrlG == <<"/", "c", "/", "i", "_", "1", ".", "p">>

Parts ==
  {TextPart(<<"t">>), TextPart(<<"\n">>),
   ImagePart(<<"A">>, ImgUrl, ImgUrl, FALSE),
   ImagePart(<<"A">>, ImgUrl, ImgUrl, TRUE),
   ImagePart(<<>>, UrlE, UrlE, FALSE),
   ImagePart(<<"a", "\\", "]">>, <<"f", "\\", "(", "1", "\\", ")", ".", "p">>, UrlF, FALSE),
   ImagePart(<<"A">>, UrlX, UrlX, FALSE),
   ImagePart(<<"B">>, UrlG, UrlG, FALSE),
   ImagePart(<<"A">>, <<"constructor">>, <<"constructor">>, FALSE)}

DataMaps ==
  {None, Some({}),
   Some({[url |-> ImgUrl, mime |-> <<"m">>, data |-> <<"D">>]}),
   Some({[url |-> ImgUrl, mime |-> <<"m">>, data |-> <<"D">>],
         [url |-> UrlE, mime |-> <<"m">>, data |-> <<"E">>],
         [url |-> UrlF, mime |-> <<"n">>, data |-> <<"F">>],
         [url |-> UrlG, mime |-> <<"m">>, data |-> <<"G">>]})}

EmbedInit ==
  /\ pc = "embed"
  /\ mdParts \in SeqsUpTo(Parts, MaxParts)
  /\ dataMap \in DataMaps
  /\ embedded = NoResult
  /\ root = Document(<<>>)
  /\ frontmatter = UndefO
  /\ options \in {o \in OptionsSet :
                    o.markdown = "myst" /\ o.images = "reference"
                    /\ ~o.commonmark.dropSolutions}
  /\ node = root
  /\ cells = <<>>
  /\ metadata = NoMetadata
  /\ given = root
  /\ degraded = Null
  /\ degradedTwice = Null
  /\ files = {}
  /\ imgAt = 0
  /\ logged = <<>>
  /\ probed = <<>>
  /\ written = <<>>
  /\ cleaned = <<>>
  /\ codeText = <<>>
  /\ emitted = NoCell

\* one call embedImagesAsAttachments(md, imageData)
Embed ==
  /\ pc = "embed"
  /\ embedded' = embedImagesAsAttachments(
                   Flatten([k \in 1..Len(mdParts) |-> partText(mdParts[k])]), dataMap)
  /\ pc' = "embedded"
  /\ UNCHANGED <<mdParts, dataMap, exportVars, degradeVars, collectVars, textVars>>

EmbedNext == Embed

EmbedSpec == EmbedInit /\ [][EmbedNext]_vars

----------------------------------------------------------------------------
(* transformToCommonMark called on its own, and once more on what it      *)
(* returned.  The trees hold every node type transformNode has a case for. *)

Of(t, k, kids) == [Parent(t, kids) EXCEPT !.kind = k]
Title(v) == Parent("admonitionTitle", <<Text(v)>>)
Img == [Node("image") EXCEPT !.url = ImgUrl, !.alt = <<"A">>, !.title = <<"T">>]
ImgNoAlt == [Node("image") EXCEPT !.url = ImgUrl]
ImgSource == [Node("image") EXCEPT !.url = UrlX, !.urlSource = ImgUrl, !.label = <<"L">>]
Caption == Parent("caption", <<P>>)
Legend == Parent("legend", <<P, LabelledP>>)
Fig(kids) == Of("container", "figure", kids)
CodeL == [Node("code") EXCEPT !.value = PH, !.lang = <<"l">>]
Math == [Node("math") EXCEPT !.value = PH, !.label = <<"L">>, !.identifier = <<"L">>]
InlineMath == [Node("inlineMath") EXCEPT !.value = PH]
Role == [Node("mystRole") EXCEPT !.value = PH]
\* a cross-reference with the link text PH
XRef(label, identifier, htmlId, url, urlSource) ==
  [Parent("crossReference", <<Text(PH)>>) EXCEPT
     !.label = label, !.identifier = identifier, !.html_id = htmlId,
     !.url = url, !.urlSource = urlSource]
TabItem(kids) == [Parent("tabItem", kids) EXCEPT !.title = <<"T">>]

DegradeUnits ==
  {P, CC, LabelledP, Target, Node("comment"), Img, ImgNoAlt, ImgSource, CodeL, Math,
   Parent("paragraph", <<Text(PH), InlineMath, Role, Parent("mystRole", <<Text(PH)>>)>>),
   Adm(<<P>>), Adm(<<Title(PH), P>>), Parent("admonition", <<Math>>),
   Fig(<<Img, Caption, Legend>>), Fig(<<ImgNoAlt, Caption>>), Fig(<<ImgSource>>),
   Fig(<<Caption>>), Fig(<<Parent("paragraph", <<ImgNoAlt>>), Caption, Legend>>),
   Fig(<<>>),
   Of("container", "table", <<Caption, Parent("table", <<>>)>>),
   Of("container", "table", <<>>),
   Of("container", "code", <<CodeL, Caption>>), Of("container", "code", <<Caption>>),
   Of("container", "quote", <<P>>),
   Ex(<<P>>), Ex(<<Title(PH), Math>>), Sol(<<P>>), Sol(<<Title(PH), P>>),
   [Of("proof", "theorem", <<Title(PH), P>>) EXCEPT !.enumerator = <<"2">>],
   Parent("proof", <<P>>),
   Parent("tabSet", <<TabItem(<<P>>), P, Of("div", "tabItem", <<Target, P>>)>>),
   Parent("card", <<Parent("cardTitle", <<Text(PH)>>), Parent("header", <<P>>), P,
                    Parent("footer", <<P>>)>>),
   Parent("card", <<[Node("cardTitle") EXCEPT !.value = PH], P>>),
   Parent("grid", <<Parent("card", <<P>>), LabelledP>>), Node("grid"),
   Parent("details", <<Parent("summary", <<Text(PH)>>), P>>), Parent("details", <<P>>),
   Parent("aside", <<Title(PH), P>>), Parent("aside", <<P>>),
   Parent("include", <<Ex(<<P>>), Target>>), Parent("include", <<>>),
   Parent("mystDirective", <<Adm(<<P>>)>>),
   [Node("mystDirective") EXCEPT !.value = PH], Node("mystDirective"),
   Parent("root", <<P, Target>>),
   Parent("paragraph", <<Text(PH), Role>>),
   Parent("paragraph", <<Text(PH), XRef(<<"L">>, <<"l">>, <<"h">>, <<"/", "u">>, UndefS)>>),
   Parent("paragraph", <<XRef(UndefS, <<"l">>, UndefS, <<"/", "u">>, UndefS)>>),
   Parent("paragraph", <<XRef(UndefS, UndefS, <<"h">>, <<"/", "u">>, UndefS)>>),
   Parent("paragraph", <<XRef(UndefS, UndefS, UndefS, <<"/", "u">>, UndefS),
                         XRef(<<"L">>, <<"l">>, UndefS, UndefS, <<"s">>)>>),
   Parent("paragraph", <<Text(PH), Node("mystRole"), Text(PH)>>),
   Parent("paragraph", <<Text(PH), Parent("mystRole", <<Text(PH), InlineMath>>)>>),
   Adm(<<Fig(<<Img, Caption>>), Ex(<<Sol(<<CodeL>>)>>)>>),
   Parent("blockquote", <<Parent("include", <<Parent("grid", <<Adm(<<Math>>)>>)>>)>>)}

\* roots around the units, and each unit as the tree itself
DegradeTrees ==
  {Document(a \o <<u>> \o b) : a \in Pads, u \in DegradeUnits, b \in Pads}
    \cup {labelNode(u, 1).n : u \in DegradeUnits}

DegradeInit ==
  /\ pc = "degrade"
  /\ root \in DegradeTrees
  /\ frontmatter = UndefO
  /\ options \in {o \in OptionsSet : o.markdown = "commonmark" /\ o.images = "reference"}
  /\ node = root
  /\ cells = <<>>
  /\ metadata = NoMetadata
  /\ mdParts = <<>>
  /\ dataMap = None
  /\ embedded = NoResult
  /\ given = root
  /\ degraded = Null
  /\ degradedTwice = Null
  /\ files = {}
  /\ imgAt = 0
  /\ logged = <<>>
  /\ probed = <<>>
  /\ written = <<>>
  /\ cleaned = <<>>
  /\ codeText = <<>>
  /\ emitted = NoCell

\* transformToCommonMark(tree, opts): works in place and returns its argument
Degrade ==
  /\ pc = "degrade"
  /\ \E out \in {transformToCommonMark(given, options.commonmark)} :
       /\ given' = out
       /\ degraded' = out
  /\ pc' = "degraded"
  /\ UNCHANGED <<degradedTwice, exportVars, embedVars, collectVars, textVars>>

\* transformToCommonMark(transformToCommonMark(tree, opts), opts)
DegradeAgain ==
  /\ pc = "degraded"
  /\ \E out \in {transformToCommonMark(given, options.commonmark)} :
       /\ given' = out
       /\ degradedTwice' = out
  /\ pc' = "degradedTwice"
  /\ UNCHANGED <<degraded, exportVars, embedVars, collectVars, textVars>>

DegradeNext == Degrade \/ DegradeAgain

DegradeSpec == DegradeInit /\ [][DegradeNext]_vars

----------------------------------------------------------------------------
(* collectImageData called on its own: the images of a tree, read from a   *)
(* file system, one image node per step of the loop.                       *)

\* most image nodes in a tree given to collectImageData
MaxImages == 2

UrlHttp == sHttp \o <<"r">>
UrlHttps == sHttps \o <<"r">>
UrlData == sData \o <<"x">>
UrlRel == <<"d", "/", "i", ".", "p">>
UrlCtor == <<"constructor">>

ImageOf(u) == [Node("image") EXCEPT !.url = u]
ImageNodes ==
  {ImageOf(u) : u \in {UrlHttp, UrlHttps, UrlData, ImgUrl, UrlX, UrlRel, UrlCtor, <<>>}}
    \cup {Node("image"), [Node("image") EXCEPT !.urlSource = UrlX]}

ImageTrees ==
  {Document([i \in 1..Len(imgs) |-> Parent("paragraph", <<Text(PH), imgs[i]>>)]) :
     imgs \in SeqsUpTo(ImageNodes, MaxImages)}

File(path, readable, data) == [path |-> path, readable |-> readable, data |-> data]
\* each of the files the urls stand for is absent, readable or not readable;
\* the two folders are there and, being folders, cannot be read as files
FileSystems ==
  {{File(<<"S">>, FALSE, <<>>), File(<<"F">>, FALSE, <<>>)} \cup a \cup b \cup c \cup d :
     a \in {{}, {File(filePathOf(ImgUrl), TRUE, <<"D">>)}, {File(filePathOf(ImgUrl), FALSE, <<>>)}},
     b \in {{}, {File(filePathOf(UrlX), TRUE, <<"X">>)}, {File(filePathOf(UrlX), FALSE, <<>>)}},
     c \in {{}, {File(filePathOf(UrlCtor), TRUE, <<"C">>)}},
     d \in {{}, {File(filePathOf(UrlRel), TRUE, <<"R">>)}}}

CollectInit ==
  /\ pc = "collect"
  /\ root \in ImageTrees
  /\ files \in FileSystems
  /\ dataMap = Some({})
  /\ imgAt = 1
  /\ logged = <<>>
  /\ probed = <<>>
  /\ written = <<>>
  /\ cleaned = <<>>
  /\ codeText = <<>>
  /\ emitted = NoCell
  /\ frontmatter = UndefO
  /\ options \in {o \in OptionsSet :
                    /\ o.markdown = "myst" /\ ~o.commonmark.dropSolutions
                    /\ o.images = "attachment" /\ o.imageData = None}
  /\ node = root
  /\ cells = <<>>
  /\ metadata = NoMetadata
  /\ mdParts = <<>>
  /\ embedded = NoResult
  /\ given = root
  /\ degraded = Null
  /\ degradedTwice = Null

\* one turn of `for (const img of imageNodes)`
CollectImage ==
  /\ pc = "collect"
  /\ imgAt <= Len(selectAll("image", root))
  /\ \E out \in {collectOne(dataMap[1], imageUrl(selectAll("image", root)[imgAt]),
                             files, logged)} :
       /\ dataMap' = Some(out.imageData)
       /\ logged' = out.log
  /\ probed' = probed \o probesOf(dataMap[1], imageUrl(selectAll("image", root)[imgAt]), files)
  /\ imgAt' = imgAt + 1
  /\ UNCHANGED <<pc, files, mdParts, embedded, exportVars, degradeVars, textVars>>

\* return imageData
CollectReturn ==
  /\ pc = "collect"
  /\ imgAt > Len(selectAll("image", root))
  /\ pc' = "collected"
  /\ UNCHANGED <<files, imgAt, logged, probed, embedVars, exportVars, degradeVars, textVars>>

CollectNext == CollectImage \/ CollectReturn

CollectSpec == CollectInit /\ [][CollectNext]_vars

----------------------------------------------------------------------------
(* stripBlockMarkers on its own: a markdown string of up to MaxLines       *)
(* lines, as writeMd may return it, is cleaned of its block markers.       *)

MaxLines == 3

MdLines ==
  {<<"+", "+", "+">>, <<"+", "+", "+", " ", "m">>, <<"a">>, <<>>,
   <<"+", "+">>, <<" ", "+", "+", "+">>}

Markdowns == {join(ls, <<"\n">>) : ls \in SeqsUpTo(MdLines, MaxLines) \ {<<>>}}

StripInit ==
  /\ pc = "strip"
  /\ written \in Markdowns
  /\ cleaned = <<>>
  /\ codeText = <<>>
  /\ emitted = NoCell
  /\ root = Document(<<>>)
  /\ frontmatter = UndefO
  /\ options \in {o \in OptionsSet :
                    o.markdown = "myst" /\ o.images = "reference"
                    /\ ~o.commonmark.dropSolutions}
  /\ node = root
  /\ cells = <<>>
  /\ metadata = NoMetadata
  /\ mdParts = <<>>
  /\ dataMap = None
  /\ embedded = NoResult
  /\ given = root
  /\ degraded = Null
  /\ degradedTwice = Null
  /\ files = {}
  /\ imgAt = 0
  /\ logged = <<>>
  /\ probed = <<>>

\* const cleanMd = stripBlockMarkers(md)
StripMarkers ==
  /\ pc = "strip"
  /\ cleaned' = stripBlockMarkers(written)
  /\ pc' = "stripped"
  /\ UNCHANGED <<written, codeText, emitted, exportVars, embedVars, degradeVars, collectVars>>

StripNext == StripMarkers

StripSpec == StripInit /\ [][StripNext]_vars

----------------------------------------------------------------------------
(* The code branch of writeIpynb's callback on its own: a notebook-code    *)
(* block whose code node has a value of up to MaxCode characters.          *)

MaxCode == 4

CodeChars == {"a", " ", "\n"}

CodeValues == SeqsUpTo(CodeChars, MaxCode)

SourceInit ==
  /\ pc = "code"
  /\ codeText \in CodeValues
  /\ emitted = NoCell
  /\ written = <<>>
  /\ cleaned = <<>>
  /\ root = Document(<<>>)
  /\ frontmatter = UndefO
  /\ options \in {o \in OptionsSet :
                    o.markdown = "myst" /\ o.images = "reference"
                    /\ ~o.commonmark.dropSolutions}
  /\ node = root
  /\ cells = <<>>
  /\ metadata = NoMetadata
  /\ mdParts = <<>>
  /\ dataMap = None
  /\ embedded = NoResult
  /\ given = root
  /\ degraded = Null
  /\ degradedTwice = Null
  /\ files = {}
  /\ imgAt = 0
  /\ logged = <<>>
  /\ probed = <<>>

\* the callback of writeIpynb for a notebook-code block
EmitCodeCell ==
  /\ pc = "code"
  /\ emitted' = codeCellOf(Code(codeText)).cell
  /\ pc' = "emitted"
  /\ UNCHANGED <<written, cleaned, codeText, exportVars, embedVars, degradeVars, collectVars>>

SourceNext == EmitCodeCell

SourceSpec == SourceInit /\ [][SourceNext]_vars

----------------------------------------------------------------------------
(* What the properties below speak of *)

isCode(cell) == cell.cell_type = "code"
isMarkdown(cell) == cell.cell_type = "markdown"
isGated(n) == n.type \in {"exercise", "solution"}
holdsCode(n) == \E i \in 1..Len(Kids(n)) : isCodeCellBlock(Kids(n)[i])
Range(seq) == {seq[i] : i \in 1..Len(seq)}

\* the nodes of a tree in document order
RECURSIVE nodesOf(_)
nodesOf(n) == <<n>> \o Flatten([i \in 1..Len(Kids(n)) |-> nodesOf(Kids(n)[i])])
NodeSet(n) == Range(nodesOf(n))

\* the exercise or solution is one the lifter is to split
splits(n, opts) ==
  isGated(n) /\ holdsCode(n) /\ ~(n.type = "solution" /\ opts.dropSolutions)

\* n is a child of the tree's root, or of a block that is one
isShallow(tree, n) ==
  \/ n \in Range(Kids(tree))
  \/ \E b \in Range(Kids(tree)) : b.type = "block" /\ n \in Range(Kids(b))

blockWrapped(tree, opts) ==
  {b \in Range(Kids(tree)) : b.type = "block" /\ \E n \in Range(Kids(b)) : splits(n, opts)}

\* C1: once the cells are filtered, the code cells of the notebook are the
\* notebook-code units of the lifted child list, one cell per unit, in
\* order, each with its unit's source: none dropped, none emitted twice.
C1_CodeCellPerCodeUnit ==
  pc \in {"filtered", "done"} =>
    LET units == SelectSeq(Kids(node), isCodeCellBlock)
        code == SelectSeq(cells, isCode)
    IN  /\ Len(code) = Len(units)
        /\ \A i \in 1..Len(code) :
             code[i].source = sourceToStringList(select("code", units[i]).value)

\* C1 witness: a finished notebook with two code cells, one of them empty
C1_Witness ==
  /\ pc = "done"
  /\ Len(SelectSeq(cells, isCode)) >= 2
  /\ \E i \in 1..Len(cells) : isCode(cells[i]) /\ Flatten(cells[i].source) = <<>>

\* the code-cell blocks that are children of an exercise or solution
gatedCode(tree) ==
  UNION {{c \in Range(Kids(n)) : isCodeCellBlock(c)} :
           n \in {m \in NodeSet(tree) : isGated(m)}}

noGatedCode(tree) == \A n \in NodeSet(tree) : isGated(n) => ~holdsCode(n)

\* C2, as stated: with dropSolutions unset, after lifting no exercise or
\* solution has a code-cell block among its children, and every code-cell
\* block that was a child of one, at whatever depth, is a child of the root.
C2_LiftedAtAnyDepth ==
  (pc = "lifted" /\ ~options.commonmark.dropSolutions) =>
    /\ noGatedCode(node)
    /\ gatedCode(root) \subseteq Range(Kids(node))

\* C2, amended: the same, for a tree whose exercises and solutions are all
\* children of the root or of a block that is a child of the root.
C2_LiftedWhenShallow ==
  (/\ pc = "lifted"
   /\ ~options.commonmark.dropSolutions
   /\ \A n \in NodeSet(root) : isGated(n) => isShallow(root, n)) =>
    /\ noGatedCode(node)
    /\ gatedCode(root) \subseteq Range(Kids(node))

\* C2 witness: a lifted tree whose code cells sat in an exercise or solution
\* inside a top-level block
C2_Witness ==
  /\ pc = "lifted"
  /\ ~options.commonmark.dropSolutions
  /\ \A n \in NodeSet(root) : isGated(n) => isShallow(root, n)
  /\ blockWrapped(root, options.commonmark) # {}
  /\ gatedCode(root) # {}

wrapperOf(e, content) == [e EXCEPT !.children = Some(content), !.oid = Fresh]

hasProse(e) == \E c \in Range(Kids(e)) : ~isCodeCellBlock(c)

\* the units a split exercise or solution e with prose becomes: its
\* children, with the first run of prose inside a copy of e
unitsAroundFirstProse(e) ==
  LET kids == Kids(e)
      prose == {i \in 1..Len(kids) : ~isCodeCellBlock(kids[i])}
      f == CHOOSE i \in prose : \A j \in prose : i <= j
      later == {i \in f..Len(kids) : isCodeCellBlock(kids[i])}
      g == IF later = {} THEN Len(kids) + 1
           ELSE CHOOSE i \in later : \A j \in later : i <= j
  IN  SubSeq(kids, 1, f - 1) \o <<wrapperOf(e, SubSeq(kids, f, g - 1))>>
        \o SubSeq(kids, g, Len(kids))

\* the units as stated: a copy of e around the children before the first
\* code cell, then the rest of the children
unitsAroundRunOne(e) ==
  LET kids == Kids(e)
      code == {i \in 1..Len(kids) : isCodeCellBlock(kids[i])}
      c == CHOOSE i \in code : \A j \in code : i <= j
  IN  <<wrapperOf(e, SubSeq(kids, 1, c - 1))>> \o SubSeq(kids, c, Len(kids))

\* the exercises and solutions under the root that are split have prose
splitWithProse(tree, opts) ==
  \A e \in Range(Kids(tree)) : splits(e, opts) => hasProse(e)

wrappersOf(tree, e) ==
  {n \in NodeSet(tree) :
     /\ n.type = e.type /\ n.label = e.label /\ n.enumerator = e.enumerator
     /\ Kids(n) # <<>>
     /\ Range(Kids(n)) \subseteq Range(Kids(e))}

\* C4: every exercise or solution the lifter splits is in the lifted tree as
\* exactly one wrapper of its type with its attributes, wherever its code
\* cells are.
C4_OneWrapperPerSplitNode ==
  pc = "lifted" =>
    \A e \in NodeSet(root) :
      (isShallow(root, e) /\ splits(e, options.commonmark)) =>
        Cardinality(wrappersOf(node, e)) = 1

\* C5: no step of writeIpynb changes the caller's tree.
C5_CallerTreeUntouched == [][root' = root]_vars

\* C5 witness: a finished commonmark export of a tree with a labelled
\* paragraph, which the Degrader strips of its label
C5_Witness ==
  /\ pc = "done"
  /\ options.markdown = "commonmark"
  /\ \E n \in Range(Kids(root)) : n.type = "paragraph" /\ n.label # UndefS

solid(source) == \E c \in Range(Flatten(source)) : c \notin WhiteSpace

\* C6: every markdown cell of the notebook has a non-whitespace character,
\* and the units whose text trims to nothing have no cell: the cells are as
\* many as the code units and the markdown units with solid text.
C6_NoEmptyMarkdownCell ==
  pc \in {"filtered", "done"} =>
    /\ \A i \in 1..Len(cells) : isMarkdown(cells[i]) => solid(cells[i].source)
    /\ Len(cells) =
         Cardinality({i \in 1..Len(Kids(node)) :
                        \/ isCodeCellBlock(Kids(node)[i])
                        \/ solid(mapBlock(Kids(node)[i], options).cell.source)})

\* C6 witness: a commonmark notebook that has no cell for a label target
C6_Witness ==
  /\ pc = "done"
  /\ options.markdown = "commonmark"
  /\ \E n \in Range(Kids(node)) : n.type = "mystTarget"
  /\ Len(cells) < Len(Kids(node))

LetterSet == Range(Letters)
isLetter(c) == c \in LetterSet
letterIndex(c) == CHOOSE k \in 1..Len(Letters) : Letters[k] = c

\* the letters of a tree's text and code, in document order
RECURSIVE leafLetters(_)
leafLetters(n) ==
  SelectSeq(n.value, isLetter)
    \o Flatten([i \in 1..Len(Kids(n)) |-> leafLetters(Kids(n)[i])])

\* the letters of the cells' sources, in cell order
cellLetters(cs) ==
  SelectSeq(Flatten([i \in 1..Len(cs) |-> Flatten(cs[i].source)]), isLetter)

\* C7: the letters of the document come in the cells in document order,
\* none twice; and all of them come, unless the Degrader is to drop the
\* solutions.
C7_CellOrderIsDocumentOrder ==
  pc \in {"filtered", "done"} =>
    /\ \A i \in 1..(Len(cellLetters(cells)) - 1) :
         letterIndex(cellLetters(cells)[i]) < letterIndex(cellLetters(cells)[i + 1])
    /\ ~(options.markdown = "commonmark" /\ options.commonmark.dropSolutions) =>
         cellLetters(cells) = leafLetters(root)

\* C7 witness: a notebook of at least four cells from a tree with an exercise
\* inside a block
C7_Witness ==
  /\ pc = "done"
  /\ blockWrapped(root, options.commonmark) # {}
  /\ Len(cells) >= 4

\* C8: language_info.name is the kernelspec's language, else its name, else
\* python; kernelspec is in the metadata exactly when the frontmatter has
\* one, with name and display_name copied and the same language.
C8_Metadata ==
  pc = "done" =>
    LET ks == IF frontmatter = UndefO THEN UndefO ELSE frontmatter.kernelspec
        lang == IF ks # UndefO /\ ks.language # UndefS THEN ks.language
                ELSE IF ks # UndefO /\ ks.name # UndefS THEN ks.name
                ELSE <<"p", "y", "t", "h", "o", "n">>
    IN  /\ metadata.language_info.name = lang
        /\ (metadata.kernelspec # UndefO) <=> (ks # UndefO)
        /\ ks # UndefO =>
             metadata.kernelspec =
               [name |-> ks.name, display_name |-> ks.display_name, language |-> lang]

\* C8 witness: a notebook from a kernelspec with a name and no language
C8_Witness ==
  /\ pc = "done"
  /\ frontmatter # UndefO
  /\ frontmatter.kernelspec # UndefO
  /\ frontmatter.kernelspec.language = UndefS
  /\ frontmatter.kernelspec.name # UndefS

\* C9: writeIpynb never raises.
C9_NeverRaises == pc # "threw"

\* the reference is to a url that is a key of the map
isKeyed(p) ==
  /\ p.kind = "image"
  /\ dataMap # None
  /\ \E e \in dataMap[1] : e.url = p.key

attachmentNames(r) ==
  IF r.attachments = None THEN {} ELSE {e.name : e \in r.attachments[1]}

\* C10: the markdown returned is the markdown given with every reference to
\* a url of the map, and no other, rewritten to ![alt](attachment:name),
\* alt as it was, where name is an entry of the attachments with that url's
\* mime and data; every other reference and all other text is as it was.
C10_RewrittenIffKeyOfMap ==
  pc = "embedded" =>
    \E names \in [1..Len(mdParts) -> attachmentNames(embedded) \cup {<<>>}] :
      /\ embedded.md =
           Flatten([k \in 1..Len(mdParts) |->
             IF isKeyed(mdParts[k])
             THEN <<"!", "[">> \o mdParts[k].alt \o <<"]", "(">>
                    \o <<"a", "t", "t", "a", "c", "h", "m", "e", "n", "t", ":">>
                    \o names[k] \o <<")">>
             ELSE partText(mdParts[k])])
      /\ \A k \in 1..Len(mdParts) :
           isKeyed(mdParts[k]) =>
             \E e \in dataMap[1] :
               /\ e.url = mdParts[k].key
               /\ [name |-> names[k], mime |-> e.mime, data |-> e.data]
                    \in embedded.attachments[1]

----------------------------------------------------------------------------
(* C11 *)

AttachmentPrefix == <<"a", "t", "t", "a", "c", "h", "m", "e", "n", "t", ":">>

\* the markdown of piece p once it points to the attachment called name
rewrittenAs(p, name) ==
  <<"!", "[">> \o p.alt \o <<"]", "(">> \o AttachmentPrefix \o name \o <<")">>

\* the ways to read the result of the call: a name for every rewritten
\* piece, <<>> for every piece left as it was
namings(r) ==
  {names \in [1..Len(mdParts) -> attachmentNames(r) \cup {<<>>}] :
     /\ \A k \in 1..Len(mdParts) : names[k] # <<>> => mdParts[k].kind = "image"
     /\ r.md = Flatten([k \in 1..Len(mdParts) |->
                  IF names[k] # <<>> THEN rewrittenAs(mdParts[k], names[k])
                  ELSE partText(mdParts[k])])}

\* base with _k before its extension, at its end when it has none
suffixed(base, k) ==
  LET dots == {i \in 1..Len(base) : base[i] = "."}
  IN  IF dots = {} THEN base \o <<"_">> \o toDigits(k)
      ELSE LET dot == CHOOSE i \in dots : \A j \in dots : j <= i
           IN  SubSeq(base, 1, dot - 1) \o <<"_">> \o toDigits(k)
                 \o SubSeq(base, dot, Len(base))

\* base with the smallest k >= 1 that gives a name not in used
firstFree(base, used) ==
  LET free == {k \in 1..(Cardinality(used) + 1) : suffixed(base, k) \notin used}
  IN  suffixed(base, CHOOSE k \in free : \A j \in free : k <= j)

\* the rewritten pieces before k, and the names they were given
earlier(names, k) == {j \in 1..(k - 1) : names[j] # <<>>}
earlierNames(names, k) == {names[j] : j \in earlier(names, k)}

\* every entry of the attachments holds the data of a piece that was given
\* its name, and every rewritten piece of a url of the map finds its own
\* data under its name
ownData(r, names) ==
  \A k \in 1..Len(mdParts) :
    (names[k] # <<>> /\ isKeyed(mdParts[k])) =>
      \E e \in dataMap[1] :
        /\ e.url = mdParts[k].key
        /\ [name |-> names[k], mime |-> e.mime, data |-> e.data] \in r.attachments[1]

distinctNames(names) ==
  \A j, k \in 1..Len(mdParts) :
    (names[j] # <<>> /\ names[k] # <<>> /\ mdParts[j].key # mdParts[k].key)
      => names[j] # names[k]

\* C11 as stated: in one call the names of references to distinct urls are
\* pairwise distinct; the first reference with a given basename is named by
\* the basename itself and each later reference with that basename by the
\* basename with _k, k the smallest k >= 1 whose name is still unused; no
\* entry holds another url's data.
C11_FirstOfBasenameKeepsIt ==
  pc = "embedded" =>
    \E names \in namings(embedded) :
      /\ distinctNames(names)
      /\ ownData(embedded, names)
      /\ \A k \in 1..Len(mdParts) :
           names[k] # <<>> =>
             names[k] =
               IF \A j \in earlier(names, k) :
                    basename(mdParts[j].key) # basename(mdParts[k].key)
               THEN basename(mdParts[k].key)
               ELSE firstFree(basename(mdParts[k].key), earlierNames(names, k))

\* C11: in one call the names given to the rewritten references are pairwise
\* distinct, one name per reference; a reference is named by its basename
\* when no earlier reference of the call was given that name, and otherwise
\* by the basename with _k, k the smallest k >= 1 whose name is still
\* unused; no entry holds another url's data.
C11_BasenameUnlessTaken ==
  pc = "embedded" =>
    \E names \in namings(embedded) :
      /\ \A j, k \in 1..Len(mdParts) :
           (j # k /\ names[j] # <<>> /\ names[k] # <<>>) => names[j] # names[k]
      /\ ownData(embedded, names)
      /\ \A k \in 1..Len(mdParts) :
           names[k] # <<>> =>
             names[k] =
               IF basename(mdParts[k].key) \notin earlierNames(names, k)
               THEN basename(mdParts[k].key)
               ELSE firstFree(basename(mdParts[k].key), earlierNames(names, k))

\* two urls of the map with one basename were rewritten in one call, the
\* first to i.p and the second to i_1.p
C11_Witness ==
  /\ pc = "embedded"
  /\ Len(mdParts) >= 2
  /\ mdParts[1].kind = "image" /\ mdParts[1].key = ImgUrl
  /\ mdParts[2].kind = "image" /\ mdParts[2].key = UrlE
  /\ embedded.attachments =
       Some({[name |-> <<"i", ".", "p">>, mime |-> <<"m">>, data |-> <<"D">>],
             [name |-> <<"i", "_", "1", ".", "p">>, mime |-> <<"m">>, data |-> <<"E">>]})
  /\ embedded.md = rewrittenAs(mdParts[1], <<"i", ".", "p">>)
                     \o rewrittenAs(mdParts[2], <<"i", "_", "1", ".", "p">>)
                     \o Flatten([k \in 3..Len(mdParts) |-> partText(mdParts[k])])

----------------------------------------------------------------------------
(* C12 *)

\* the markdown the call was given
inputMd == Flatten([k \in 1..Len(mdParts) |-> partText(mdParts[k])])

\* C12: when the image-data map is empty, or no image reference of the
\* markdown has a url of the map, the call returns the markdown it was given
\* and no attachments field; it never returns attachments without entries.
C12_UntouchedWhenNothingKeyed ==
  pc = "embedded" =>
    /\ (dataMap = Some({}) \/ \A k \in 1..Len(mdParts) : ~isKeyed(mdParts[k]))
         => embedded = [md |-> inputMd, attachments |-> None]
    /\ embedded.attachments # Some({})

----------------------------------------------------------------------------
(* C13 *)

\* the content of a tree, whichever objects hold it
RECURSIVE content(_)
content(n) ==
  IF n.children = None THEN [n EXCEPT !.oid = Fresh]
  ELSE [n EXCEPT !.oid = Fresh,
                 !.children = Some([i \in 1..Len(n.children[1]) |->
                                      content(n.children[1][i])])]

\* C13: the Degrader is idempotent: for every tree and option value a second
\* run on the result of the first returns a tree equal to that result.
C13_DegraderIdempotent ==
  pc = "degradedTwice" => content(degradedTwice) = content(degraded)

\* a second run was made on a tree the first run had rewritten: a nested
\* directive was replaced and the result differs from the tree given
C13_Witness ==
  /\ pc = "degradedTwice"
  /\ \E n \in NodeSet(root) :
       /\ n.type = "admonition"
       /\ \E c \in NodeSet(n) : c.type \in {"exercise", "math", "container"}
  /\ content(degraded) # content(root)
  /\ \A n \in NodeSet(degraded) :
       n.type \notin {"admonition", "exercise", "math", "container"}

----------------------------------------------------------------------------
(* C14 *)

\* the solutions of the caller's tree that hold code-cell blocks
codeSolutions == {n \in NodeSet(root) : n.type = "solution" /\ holdsCode(n)}

\* C14: with dropSolutions set, a solution that holds code-cell blocks comes
\* out of the lifter as it went in, and none of its text, prose or code, is
\* in the cells of the notebook.
C14_DroppedSolutionLeavesNothing ==
  (pc \in {"filtered", "done"} /\ options.commonmark.dropSolutions) =>
    \A n \in codeSolutions :
      /\ n \in NodeSet(node)
      /\ \A i \in 1..Len(leafLetters(n)) :
           \A j \in 1..Len(cellLetters(cells)) :
             cellLetters(cells)[j] # leafLetters(n)[i]

----------------------------------------------------------------------------
(* C15 *)

\* the urls of the tree's images
treeUrls ==
  {imageUrl(n) : n \in {m \in NodeSet(root) : m.type = "image"}} \ {UndefS, <<>>}

isLocalUrl(u) ==
  ~StartsWith(u, sHttp) /\ ~StartsWith(u, sHttps) /\ ~StartsWith(u, sData)

\* the file of the url is there and can be read
readsWell(u) == \E f \in files : f.path = filePathOf(u) /\ f.readable

\* C15: the map collectImageData returns has as keys exactly the local
\* urls of the tree's images whose file exists and is read; a file that is
\* missing or cannot be read is logged and costs no other image its entry.
C15_KeysAreTheReadableLocalUrls ==
  pc = "collected" =>
    /\ {e.url : e \in dataMap[1]} = {u \in treeUrls : isLocalUrl(u) /\ readsWell(u)}
    /\ \A u \in treeUrls :
         (isLocalUrl(u) /\ ~readsWell(u)) =>
           \E i \in 1..Len(logged) : logged[i].path = filePathOf(u)

----------------------------------------------------------------------------
(* C16 *)

\* the serializer's output for a top-level unit, block markers stripped
cleanMdOf(unit) ==
  stripBlockMarkers(writeMd(blockTreeOf(Parent("root", <<unit>>), options)))

\* the units of the lifted tree that have a cell in the notebook
cellUnits ==
  SelectSeq(Kids(node), LAMBDA u : isCodeCellBlock(u) \/ solid(<<cleanMdOf(u)>>))

\* the text points to an attachment somewhere
hasAttachmentRef(text) ==
  \E i \in 1..Len(text) :
    /\ i + Len(AttachmentPrefix) + 1 <= Len(text)
    /\ SubSeq(text, i, i + Len(AttachmentPrefix) + 1) = <<"]", "(">> \o AttachmentPrefix

\* C16: in the notebook a markdown cell has the attachments field exactly
\* when images is 'attachment', imageData was given and a reference of the
\* cell was rewritten; the field is never empty; no code cell has it; with
\* images 'reference' the text of every markdown cell is the serializer's
\* output with the block markers stripped.
C16_AttachmentsIffRewritten ==
  pc = "done" =>
    /\ Len(cells) = Len(cellUnits)
    /\ \A i \in 1..Len(cells) :
         IF isCodeCellBlock(cellUnits[i])
         THEN cells[i].cell_type = "code" /\ cells[i].attachments = None
         ELSE /\ cells[i].cell_type = "markdown"
              /\ cells[i].attachments # Some({})
              /\ cells[i].attachments # None <=>
                   /\ options.images = "attachment"
                   /\ options.imageData # None
                   /\ hasAttachmentRef(Flatten(cells[i].source))
              /\ options.images = "reference" =>
                   Flatten(cells[i].source) = cleanMdOf(cellUnits[i])

\* a notebook with a markdown cell that has attachments, made with images
\* 'attachment' from a tree with an image of the map
C16_Witness ==
  /\ pc = "done"
  /\ options.images = "attachment"
  /\ \E i \in 1..Len(cells) :
       /\ cells[i].cell_type = "markdown"
       /\ cells[i].attachments # None
       /\ hasAttachmentRef(Flatten(cells[i].source))

----------------------------------------------------------------------------
(* C17 *)

\* no child of the root is an exercise or solution with code-cell blocks,
\* and no block that is a child of the root has one among its children
nothingToLift ==
  \A i \in 1..Len(Kids(root)) :
    /\ ~(isGated(Kids(root)[i]) /\ holdsCode(Kids(root)[i]))
    /\ Kids(root)[i].type = "block" =>
         \A j \in 1..Len(Kids(Kids(root)[i])) :
           ~(isGated(Kids(Kids(root)[i])[j]) /\ holdsCode(Kids(Kids(root)[i])[j]))

\* C17: when no top-level child is an exercise or solution with code-cell
\* blocks and no top-level block holds one, the lifter returns the root
\* object it was given, with the children list it had, not a copy.
C17_SameRootWhenNothingToLift ==
  (pc = "lifted" /\ nothingToLift) =>
    /\ node.oid = root.oid
    /\ node = root

\* the lifter ran on a tree that has an exercise with code-cell blocks, but
\* deeper than the lifter looks, and returned the root it was given
C17_Witness ==
  /\ pc = "lifted"
  /\ nothingToLift
  /\ \E n \in NodeSet(root) : isGated(n) /\ holdsCode(n)
  /\ node.oid = root.oid

----------------------------------------------------------------------------
(* C18 *)

\* a sequence cut at the positions in breaks: the maximal runs between the
\* breaks, none empty, and the elements at the breaks, in order
pieces(kids, breaks) ==
  LET n == Len(kids)
      starts(i) == i \notin breaks /\ (i = 1 \/ (i - 1) \in breaks)
      ends(i) == CHOOSE j \in i..n :
                   /\ \A k \in i..j : k \notin breaks
                   /\ (j = n \/ (j + 1) \in breaks)
  IN  Flatten([i \in 1..n |->
        IF i \in breaks THEN <<[run |-> FALSE, items |-> <<kids[i]>>]>>
        ELSE IF starts(i) THEN <<[run |-> TRUE, items |-> SubSeq(kids, i, ends(i))]>>
        ELSE <<>>])

\* what a qualifying exercise or solution e inside a block becomes: its
\* code cells promoted, its first run of other nodes in a block holding the
\* wrapper, each later run in a block of its own
unitsOfGatedInBlock(e) ==
  LET ps == pieces(Kids(e), {i \in 1..Len(Kids(e)) : isCodeCellBlock(Kids(e)[i])})
  IN  [k \in 1..Len(ps) |->
        IF ~ps[k].run THEN ps[k].items[1]
        ELSE IF \A j \in 1..(k - 1) : ~ps[j].run
        THEN Parent("block", <<wrapperOf(e, ps[k].items)>>)
        ELSE Parent("block", ps[k].items)]

\* what a block b with a qualifying child becomes: each maximal run of
\* non-qualifying siblings one block, each qualifying child its units
unitsOfSplitBlock(b, opts) ==
  LET ps == pieces(Kids(b), {i \in 1..Len(Kids(b)) : splits(Kids(b)[i], opts)})
  IN  Flatten([k \in 1..Len(ps) |->
        IF ps[k].run THEN <<Parent("block", ps[k].items)>>
        ELSE unitsOfGatedInBlock(ps[k].items[1])])

----------------------------------------------------------------------------
(* C19 *)

\* the pieces that refer to url u of the map
refsTo(u) == {k \in 1..Len(mdParts) : isKeyed(mdParts[k]) /\ mdParts[k].key = u}

\* C19: when a url of the map is referenced more than once in the markdown
\* of one call, every one of its references is rewritten, all of them to
\* one name, and the attachments hold one entry with that url's data.
C19_OneEntryPerUrl ==
  pc = "embedded" =>
    \E names \in namings(embedded) :
      \A e \in (IF dataMap = None THEN {} ELSE dataMap[1]) :
        Cardinality(refsTo(e.url)) > 1 =>
          /\ \A k \in refsTo(e.url) : names[k] # <<>>
          /\ \A j, k \in refsTo(e.url) : names[j] = names[k]
          /\ Cardinality({a \in embedded.attachments[1] :
                            a.mime = e.mime /\ a.data = e.data}) = 1

----------------------------------------------------------------------------
(* C20 *)

\* the figures under the root that only plain units precede, each of which
\* the Degrader leaves as one unit: the replacement starts where the figure was
figuresAt ==
  {i \in 1..Len(Kids(root)) :
     /\ root.type = "root"
     /\ Kids(root)[i].type = "container" /\ Kids(root)[i].kind = "figure"
     /\ \A j \in 1..(i - 1) : Kids(root)[j].type \in {"paragraph", "block"}}

\* the replacement image has the inner image's url and alt, and the
\* caption's text for alt when the inner image has none
imageTakenFrom(out, img, cap) ==
  /\ out.type = "image"
  /\ img # Null =>
       /\ out.url \in {img.url, img.urlSource} \ {UndefS}
       /\ img.alt # UndefS => out.alt = img.alt
       /\ (img.alt = UndefS /\ cap # Null) => out.alt = toText(cap)

\* from position i on the units are the image, the caption's children in an
\* italic paragraph if there is a caption, then the legend's children
figureUnitsAt(out, i, img, cap, leg) ==
  LET c == IF cap # Null /\ Kids(cap) # <<>> THEN 1 ELSE 0
      l == IF leg = Null THEN 0 ELSE Len(Kids(leg))
  IN  /\ Len(out) >= i + c + l
      /\ imageTakenFrom(out[i], img, cap)
      /\ c = 1 =>
           /\ out[i + 1].type = "paragraph"
           /\ Len(Kids(out[i + 1])) = 1
           /\ Kids(out[i + 1])[1].type = "emphasis"
           /\ [k \in 1..Len(Kids(cap)) |-> content(Kids(Kids(out[i + 1])[1])[k])]
                = [k \in 1..Len(Kids(cap)) |-> content(Kids(cap)[k])]
      /\ \A k \in 1..l :
           content(out[i + c + k]) = content(stripLabels(Kids(leg)[k]))

\* C20: when the Degrader, run from a root, replaces a figure container, the
\* replacement image has the inner image's url and alt, and the caption's
\* text as alt when the inner image has none and the figure has a caption;
\* the italic caption paragraph and the legend's children follow it.
C20_FigureAltFallsBackToCaption ==
  pc = "degraded" =>
    \A i \in figuresAt :
      figureUnitsAt(Kids(degraded), i, select("image", Kids(root)[i]),
                    select("caption", Kids(root)[i]), select("legend", Kids(root)[i]))

----------------------------------------------------------------------------
(* C21 *)

\* a node the Degrader replaces by exactly one node
oneToOne(n) == n.type \in {"text", "paragraph", "block", "inlineMath"}

\* the positions of the directives and roles among the children of the tree
\* given, where every other child is replaced one to one
genericAt ==
  {i \in 1..Len(Kids(root)) :
     /\ Kids(root)[i].type \in {"mystDirective", "mystRole"}
     /\ \A j \in 1..Len(Kids(root)) : j # i => oneToOne(Kids(root)[j])}

hasValue(n) == n.value # UndefS /\ n.value # <<>>

\* the children of n as the Degrader leaves them
degradedKids(n) == Kids(transformToCommonMark(n, options.commonmark))

\* from position i on, out holds the units us, and nothing else was added
holdsAt(out, i, us) ==
  /\ Len(out) = Len(Kids(root)) - 1 + Len(us)
  /\ \A k \in 1..Len(us) : content(out[i + k - 1]) = content(us[k])

\* n was unwrapped, else made a code block of its value, else dropped
threeWay(out, i, n) ==
  IF Len(Kids(n)) > 0 THEN holdsAt(out, i, degradedKids(n))
  ELSE IF hasValue(n)
  THEN /\ holdsAt(out, i, <<Code(n.value)>>) \/ holdsAt(out, i, <<[Code(n.value) EXCEPT !.lang = <<>>]>>)
       /\ out[i].type = "code"
  ELSE holdsAt(out, i, <<>>)

\* C21, as stated: a generic directive and a generic role are each unwrapped
\* to their children when they have any, else made a code block of their
\* raw value when they have one, else dropped.
C21_DirectiveAndRoleThreeWay ==
  pc = "degraded" =>
    \A i \in genericAt : threeWay(Kids(degraded), i, Kids(root)[i])

\* C21, amended: that holds for a directive; a role is unwrapped to its
\* children when it has any, and is otherwise replaced by a text node of
\* its raw value, the empty text when it has none: never a code block,
\* never dropped.
C21_RoleBecomesText ==
  pc = "degraded" =>
    \A i \in genericAt :
      IF Kids(root)[i].type = "mystDirective"
      THEN threeWay(Kids(degraded), i, Kids(root)[i])
      ELSE IF Len(Kids(Kids(root)[i])) > 0
      THEN holdsAt(Kids(degraded), i, degradedKids(Kids(root)[i]))
      ELSE holdsAt(Kids(degraded), i,
                   <<Text(IF hasValue(Kids(root)[i]) THEN Kids(root)[i].value ELSE <<>>)>>)

\* a paragraph with a role that has a raw value and no children was
\* degraded: a text node of that value stands where the role was
C21_Witness ==
  /\ pc = "degraded"
  /\ \E i \in genericAt :
       /\ Kids(root)[i].type = "mystRole"
       /\ Kids(Kids(root)[i]) = <<>>
       /\ hasValue(Kids(root)[i])
       /\ Kids(degraded)[i].type = "text"
       /\ Kids(degraded)[i].value = Kids(root)[i].value

----------------------------------------------------------------------------
(* C22 *)

RewrittenKinds ==
  {"admonition", "math", "inlineMath", "exercise", "solution", "proof",
   "tabSet", "card", "grid", "details", "aside", "include",
   "mystDirective", "mystRole", "mystTarget", "comment"}

isRewrittenKind(n) ==
  \/ n.type \in RewrittenKinds
  \/ n.type = "container" /\ n.kind \in {"figure", "table"}

\* the nodes below t
descendants(t) == UNION {NodeSet(Kids(t)[i]) : i \in 1..Len(Kids(t))}

\* C22: after transformToCommonMark, no descendant of the tree has one of
\* the rewritten MyST kinds and none is a root wrapper: every replacement
\* has been flattened into its parent's children, and what a replacement
\* spliced in is itself degraded.
C22_NoMystKindLeft ==
  pc = "degraded" =>
    \A n \in descendants(degraded) : ~isRewrittenKind(n) /\ n.type # "root"

\* a tree with a rewritten kind nested in another one (so that the
\* replacement of the outer splices in what replaced the inner), and with
\* a replacement of several nodes, was degraded
C22_Witness ==
  /\ pc = "degraded"
  /\ \E n \in descendants(root) :
       /\ isRewrittenKind(n)
       /\ \E m \in descendants(n) : isRewrittenKind(m)
  /\ Len(Kids(degraded)) > Len(Kids(root))

----------------------------------------------------------------------------
(* C23 *)

isMarkerLine(line) == StartsWith(line, <<"+", "+", "+">>)

\* how many marker lines the lines start with
leadingMarkers(lines) ==
  CHOOSE k \in 0..Len(lines) :
    /\ \A j \in 1..k : isMarkerLine(lines[j])
    /\ k = Len(lines) \/ ~isMarkerLine(lines[k + 1])

\* C23: block-marker stripping removes only the leading marker lines: what
\* follows the first line that is no marker is kept unchanged and in order,
\* lines that begin with +++ included.
C23_OnlyLeadingMarkersStripped ==
  pc = "stripped" =>
    LET lines == split(written, "\n")
    IN  cleaned = join(SubSeq(lines, leadingMarkers(lines) + 1, Len(lines)), <<"\n">>)

----------------------------------------------------------------------------
(* C24 *)

\* how many times collectImageData made the call op for the URL u
timesProbed(op, u) ==
  Cardinality({k \in 1..Len(probed) : probed[k].op = op /\ probed[k].url = u})

\* how many failure lines it logged for the file of the URL u
timesLogged(u) ==
  Cardinality({k \in 1..Len(logged) : logged[k].path = filePathOf(u)})

\* no other URL of the tree names the file of u
ownFile(u) == \A v \in treeUrls : filePathOf(v) = filePathOf(u) => v = u

\* C24: collectImageData processes each image URL at most once in a call:
\* however often the URL repeats, and whether its read succeeds, finds no
\* file or throws, the existence check, the file read and the failure log
\* for it happen at most one time.
C24_EachUrlProcessedOnce ==
  \A u \in treeUrls :
    /\ timesProbed("existsSync", u) <= 1
    /\ timesProbed("readFileSync", u) <= 1
    /\ ownFile(u) => timesLogged(u) <= 1

----------------------------------------------------------------------------
(* C25 *)

\* the cross-references of a tree that carry no urlSource
xrefsOf(t) == {n \in NodeSet(t) : n.type = "crossReference" /\ n.urlSource = UndefS}

\* C25: stripping identifier and label in the Degrader does not change
\* where a cross-reference points: for every crossReference without
\* urlSource, the url the serializer resolves for it after
\* transformToCommonMark is the url it resolves for it before.
C25_CrossReferenceKeepsItsUrl ==
  pc = "degraded" =>
    \A n \in xrefsOf(root) : \A m \in xrefsOf(degraded) :
      m.oid = n.oid => resolvedUrl(m) = resolvedUrl(n)

----------------------------------------------------------------------------
(* C26 *)

\* the names the reading names gives to the rewritten pieces
namesWritten(names) == {names[k] : k \in {j \in 1..Len(mdParts) : names[j] # <<>>}}

\* C26: in every result of embedImagesAsAttachments that has attachments,
\* the names written into attachment:<name> references are exactly the keys
\* of the attachments, and the entry under each name is {mime: data} of the
\* url the reference with that name replaced.
C26_NamesAreTheKeys ==
  (pc = "embedded" /\ embedded.attachments # None) =>
    \E names \in namings(embedded) :
      /\ namesWritten(names) = attachmentNames(embedded)
      /\ \A k \in 1..Len(mdParts) :
           names[k] # <<>> =>
             \E e \in dataMap[1] :
               /\ e.url = mdParts[k].key
               /\ [name |-> names[k], mime |-> e.mime, data |-> e.data]
                    \in embedded.attachments[1]

----------------------------------------------------------------------------
(* C27 *)

\* the entry is one line: it ends with a newline and holds no other
oneLine(entry) ==
  /\ Len(entry) > 0
  /\ entry[Len(entry)] = "\n"
  /\ \A i \in 1..(Len(entry) - 1) : entry[i] # "\n"

\* C27: the source of the cell emitted for a code unit is the code node's
\* text split into lines: the entries concatenated give the code value
\* exactly, every entry but the last ends with exactly one newline and
\* holds no other, and the last entry has no trailing newline.
C27_SourceIsTheCodeInLines ==
  pc = "emitted" =>
    LET source == emitted.source
    IN  /\ Flatten(source) = codeText
        /\ \A i \in 1..(Len(source) - 1) : oneLine(source[i])
        /\ Len(source) > 0
        /\ source[Len(source)] = <<>> \/ source[Len(source)][Len(source[Len(source)])] # "\n"

====
